---- MODULE Spec2Model ----
(***************************************************************************)
(* Crontopus control-plane API: the credential authority.                  *)
(*                                                                         *)
(* The model covers the three bearer kinds (session JWT, API token         *)
(* "ctp_", enrollment token "cet_"), their validators, the principal       *)
(* resolvers get_current_user / get_user_for_enrollment, the scope         *)
(* matcher APIToken.has_scope and the tenant-scoped by-id handlers.        *)
(*                                                                         *)
(* Strings that the code inspects character by character (scopes) are      *)
(* sequences of one-character strings.  Bearers are tuples whose first     *)
(* component is the literal prefix the code tests with startswith.         *)
(* Random secrets (secrets.token_urlsafe) are fresh numbers.  sha256 is    *)
(* an injective tagging of its argument.  Time is a small integer clock.   *)
(***************************************************************************)
EXTENDS Integers, Sequences, FiniteSets, TLC

VARIABLES now, users, tenants, api_tokens, enrollment_tokens, endpoints,
          job_runs, repo, login_window,
          seq, req, issued, admitted, resp, sc

vars == <<now, users, tenants, api_tokens, enrollment_tokens, endpoints,
          job_runs, repo, login_window,
          seq, req, issued, admitted, resp, sc>>

(***************************************************************************)
(* Bounds of the model.                                                    *)
(***************************************************************************)
MaxTime == 2
MaxUsers == 2
MaxApiTokens == 1
MaxEnrollmentTokens == 1
MaxEndpoints == 1
MaxEnrollments == 3
MaxInserted == 2
MaxRuns == 1
MaxScopes == 2
MaxUsesBound == 2
MaxUsed == 2
MaxLogins == 6

\* Python's None for optional columns and claims (ids and times are >= 0).
None == 0 - 1

Tenants == {"acme", "other"}

(***************************************************************************)
(* Strings.                                                                *)
(***************************************************************************)
s_read_runs == <<"r", "e", "a", "d", ":", "r", "u", "n", "s">>
s_write_jobs == <<"w", "r", "i", "t", "e", ":", "j", "o", "b", "s">>
s_read_jobs == <<"r", "e", "a", "d", ":", "j", "o", "b", "s">>
s_read_agents == <<"r", "e", "a", "d", ":", "a", "g", "e", "n", "t", "s">>
s_write_agents == <<"w", "r", "i", "t", "e", ":", "a", "g", "e", "n", "t", "s">>
s_read_tokens == <<"r", "e", "a", "d", ":", "t", "o", "k", "e", "n", "s">>
s_write_tokens == <<"w", "r", "i", "t", "e", ":", "t", "o", "k", "e", "n", "s">>
s_admin_star == <<"a", "d", "m", "i", "n", ":", "*">>
s_read_star == <<"r", "e", "a", "d", ":", "*">>
s_write_star == <<"w", "r", "i", "t", "e", ":", "*">>
s_read_colon == <<"r", "e", "a", "d", ":">>
s_run_star == <<"r", "u", "n", ":", "*">>
s_reader_star == <<"r", "e", "a", "d", "e", "r", ":", "*">>
s_admin_users == <<"a", "d", "m", "i", "n", ":", "u", "s", "e", "r", "s">>
s_colon_star == <<":", "*">>
s_comma == <<",">>

\* Namespace and file names.
n_discovered == <<"d", "i", "s", "c", "o", "v", "e", "r", "e", "d">>
n_default == <<"d", "e", "f", "a", "u", "l", "t">>
n_production == <<"p", "r", "o", "d", "u", "c", "t", "i", "o", "n">>
n_staging == <<"s", "t", "a", "g", "i", "n", "g">>
n_team_a == <<"t", "e", "a", "m", "-", "a">>
n_team_dash == <<"t", "e", "a", "m", "-">>
n_Default == <<"D", "e", "f", "a", "u", "l", "t">>
n_default_nl == <<"d", "e", "f", "a", "u", "l", "t", "\n">>
f_gitkeep == <<".", "g", "i", "t", "k", "e", "e", "p">>
f_backup_yaml == <<"b", "a", "c", "k", "u", "p", ".", "y", "a", "m", "l">>
f_report_yml == <<"r", "e", "p", "o", "r", "t", ".", "y", "m", "l">>
f_notes_txt == <<"n", "o", "t", "e", "s", ".", "t", "x", "t">>
s_dot_yaml == <<".", "y", "a", "m", "l">>
s_dot_yml == <<".", "y", "m", "l">>

\* str.startswith
startswith(s, prefix) ==
    /\ Len(prefix) <= Len(s)
    /\ SubSeq(s, 1, Len(prefix)) = prefix

\* str.endswith
endswith(s, suffix) ==
    /\ Len(suffix) <= Len(s)
    /\ SubSeq(s, Len(s) - Len(suffix) + 1, Len(s)) = suffix

\* x in list
contains(list, x) == \E i \in 1..Len(list) : list[i] = x

\* sep.join(list)
RECURSIVE join(_, _)
join(sep, list) ==
    IF Len(list) = 0 THEN <<>>
    ELSE IF Len(list) = 1 THEN list[1]
    ELSE list[1] \o sep \o join(sep, Tail(list))

\* s.split(',') : the pieces between the commas, an empty string gives [""]
RECURSIVE split(_, _)
split(s, ch) ==
    LET commas == {i \in 1..Len(s) : s[i] = ch}
    IN  IF commas = {} THEN <<s>>
        ELSE LET k == CHOOSE i \in commas : \A j \in commas : i <= j
             IN  <<SubSeq(s, 1, k - 1)>> \o split(SubSeq(s, k + 1, Len(s)), ch)

\* s.strip() : leading and trailing whitespace removed
RECURSIVE strip(_)
strip(s) ==
    IF Len(s) = 0 THEN s
    ELSE IF s[1] = " " THEN strip(Tail(s))
    ELSE IF s[Len(s)] = " " THEN strip(SubSeq(s, 1, Len(s) - 1))
    ELSE s

(***************************************************************************)
(* Scopes: models/api_token.py and schemas/api_token.py.                   *)
(***************************************************************************)
AVAILABLE_SCOPES ==
    << s_read_runs, s_write_jobs, s_read_jobs, s_read_agents, s_write_agents,
       s_read_tokens, s_write_tokens, s_admin_star >>

\* Only the first offending scope is reported.
RECURSIVE validate_scopes_first_only(_)
validate_scopes_first_only(v) ==
    IF Len(v) = 0 THEN <<>>
    ELSE LET scope == v[1]
             invalid ==
                 IF endswith(scope, s_colon_star)
                 THEN LET prefix == SubSeq(scope, 1, Len(scope) - 1)
                      IN  ~ \E i \in 1..Len(AVAILABLE_SCOPES) :
                                startswith(AVAILABLE_SCOPES[i], prefix)
                 ELSE ~ contains(AVAILABLE_SCOPES, scope)
         IN  IF invalid THEN <<scope>> ELSE validate_scopes_first_only(Tail(v))

\* APITokenCreate.validate_scopes: the list of offending scopes, in order.
RECURSIVE validate_scopes(_)
validate_scopes(v) ==
    IF Len(v) = 0 THEN <<>>
    ELSE LET scope == v[1]
             invalid ==
                 IF endswith(scope, s_colon_star)
                 THEN LET prefix == SubSeq(scope, 1, Len(scope) - 1)
                      IN  ~ \E i \in 1..Len(AVAILABLE_SCOPES) :
                                startswith(AVAILABLE_SCOPES[i], prefix)
                 ELSE ~ contains(AVAILABLE_SCOPES, scope)
         IN  (IF invalid THEN <<scope>> ELSE <<>>) \o validate_scopes(Tail(v))

\* A plausible slip: the wildcard loop strips ":*" instead of "*", so
\* "read:*" would also match "reader..." and "readx:...".
has_scope_wide(scopes, required_scope) ==
    LET parts == split(scopes, ",")
        token_scopes == [i \in 1..Len(parts) |-> strip(parts[i])]
    IN  IF contains(token_scopes, s_admin_star) THEN TRUE
        ELSE IF contains(token_scopes, required_scope) THEN TRUE
        ELSE \E i \in 1..Len(token_scopes) :
                /\ endswith(token_scopes[i], s_colon_star)
                /\ startswith(required_scope,
                              SubSeq(token_scopes[i], 1, Len(token_scopes[i]) - 2))

\* APIToken.has_scope on the stored comma-joined column.
has_scope(scopes, required_scope) ==
    LET parts == split(scopes, ",")
        token_scopes == [i \in 1..Len(parts) |-> strip(parts[i])]
    IN  IF contains(token_scopes, s_admin_star) THEN TRUE
        ELSE IF contains(token_scopes, required_scope) THEN TRUE
        ELSE \E i \in 1..Len(token_scopes) :
                /\ endswith(token_scopes[i], s_colon_star)
                /\ startswith(required_scope,
                              SubSeq(token_scopes[i], 1, Len(token_scopes[i]) - 1))

(***************************************************************************)
(* Bearer credentials.                                                     *)
(***************************************************************************)
\* config.py: Settings.secret_key, and a key the server does not hold.
SECRET_KEY == "secret_key"
OTHER_KEY == "other_key"
SigningKeys == {SECRET_KEY, OTHER_KEY}

\* generate_token: f"ctp_{secrets.token_urlsafe(32)}"
ApiBearer(n) == <<"ctp_", n>>
\* create_enrollment_token: f"cet_{secrets.token_urlsafe(32)}"
EnrollmentBearer(n) == <<"cet_", n>>
\* A JWT: base64 header "eyJ...", the signing key, the claims user_id,
\* tenant_id and exp.
Jwt(key, user_id, tenant_id, exp) == <<"eyJ", key, user_id, tenant_id, exp>>

\* token.startswith("ctp_") / token.startswith("cet_") on a bearer
bearer_startswith(token, prefix) == token[1] = prefix

\* Session tokens presented: signed by the server for every user id claim
\* (None: the claim is missing; MaxUsers + 1: no such user), one of them
\* expiring at time 0, and tokens signed with another key.
JwtBearers ==
    { Jwt(SECRET_KEY, u, "acme", MaxTime) : u \in {None} \cup (1..(MaxUsers + 1)) }
    \cup { Jwt(SECRET_KEY, 1, "acme", 0) }
    \cup { Jwt(OTHER_KEY, u, tn, MaxTime) : u \in {None, 1}, tn \in Tenants }

\* Every bearer a client may present: secret 0 was never issued.
Bearers ==
    { ApiBearer(n) : n \in 0..(seq.secret - 1) }
    \cup { EnrollmentBearer(n) : n \in 0..(seq.secret - 1) }
    \cup JwtBearers

\* hashlib.sha256(token.encode()).hexdigest()
hash_token(token) == <<"sha256", token>>

\* security/jwt.py decode_access_token: the payload (a singleton set) when
\* the signature verifies under the server key and exp has not passed,
\* otherwise None (the empty set).
decode_access_token(token, t) ==
    IF /\ bearer_startswith(token, "eyJ")
       /\ token[2] = SECRET_KEY
       /\ ~ (token[5] < t)
    THEN {[user_id |-> token[3], tenant_id |-> token[4]]}
    ELSE {}

(***************************************************************************)
(* Validators: security/dependencies.py.                                   *)
(***************************************************************************)
\* APIToken.is_expired
is_expired(api_token, t) ==
    IF api_token.expires_at = None THEN FALSE
    ELSE t > api_token.expires_at

\* The usage bookkeeping is forgotten: last_used_at is never written.
authenticate_api_token_no_touch(token, toks, usrs, t) ==
    LET found == {a \in toks : a.token_hash = hash_token(token)}
    IN  IF found = {} THEN [user |-> None, api_tokens |-> toks]
        ELSE
          LET api_token == CHOOSE a \in found : TRUE
              owner == {u \in usrs : u.id = api_token.user_id}
          IN  IF is_expired(api_token, t) \/ owner = {}
              THEN [user |-> None, api_tokens |-> toks]
              ELSE IF ~ (CHOOSE u \in owner : TRUE).is_active
              THEN [user |-> None, api_tokens |-> toks]
              ELSE [user |-> api_token.user_id, api_tokens |-> toks]

\* authenticate_api_token: the user id returned (None on failure) and the
\* api_tokens table after the call (last_used_at is committed before the
\* owner is looked up).
authenticate_api_token(token, toks, usrs, t) ==
    LET token_hash == hash_token(token)
        found == {a \in toks : a.token_hash = token_hash}
    IN  IF found = {} THEN [user |-> None, api_tokens |-> toks]
        ELSE
          LET api_token == CHOOSE a \in found : TRUE
              written == (toks \ {api_token})
                           \cup {[api_token EXCEPT !.last_used_at = t]}
              owner == {u \in usrs : u.id = api_token.user_id}
          IN  IF is_expired(api_token, t)
              THEN [user |-> None, api_tokens |-> toks]
              ELSE IF owner = {}
              THEN [user |-> None, api_tokens |-> written]
              ELSE IF ~ (CHOOSE u \in owner : TRUE).is_active
              THEN [user |-> None, api_tokens |-> written]
              ELSE [user |-> api_token.user_id, api_tokens |-> written]

Rejected(status, detail) ==
    [status |-> status, detail |-> detail, user |-> None, via |-> ""]

\* The claims are read without the signature being verified.
get_current_user_jwt_unverified(token, usrs, t) ==
    LET payload == IF bearer_startswith(token, "eyJ")
                   THEN {[user_id |-> token[3], tenant_id |-> token[4]]}
                   ELSE {}
    IN  IF payload # {}
        THEN LET user_id == (CHOOSE p \in payload : TRUE).user_id
                 user == {u \in usrs : u.id = user_id}
             IN  IF user_id = None
                 THEN Rejected(401, "Invalid token payload")
                 ELSE IF user = {}
                 THEN Rejected(401, "User not found")
                 ELSE IF ~ (CHOOSE u \in user : TRUE).is_active
                 THEN Rejected(403, "User account is inactive")
                 ELSE [status |-> 200, detail |-> "", user |-> user_id,
                       via |-> "session"]
        ELSE Rejected(401, "Could not validate credentials")

\* get_current_user, lines 57-92: the JWT attempt.
get_current_user_jwt(token, usrs, t) ==
    LET payload == decode_access_token(token, t)
    IN  IF payload # {}
        THEN LET user_id == (CHOOSE p \in payload : TRUE).user_id
                 user == {u \in usrs : u.id = user_id}
             IN  IF user_id = None
                 THEN Rejected(401, "Invalid token payload")
                 ELSE IF user = {}
                 THEN Rejected(401, "User not found")
                 ELSE IF ~ (CHOOSE u \in user : TRUE).is_active
                 THEN Rejected(403, "User account is inactive")
                 ELSE [status |-> 200, detail |-> "", user |-> user_id,
                       via |-> "session"]
        ELSE Rejected(401, "Could not validate credentials")

\* A failed API-token validation is answered at once, without the fall
\* through to the JWT attempt.
get_current_user_no_fallthrough(token, toks, usrs, t) ==
    LET is_api == bearer_startswith(token, "ctp_")
        api == IF is_api THEN authenticate_api_token(token, toks, usrs, t)
               ELSE [user |-> None, api_tokens |-> toks]
        jwt == get_current_user_jwt(token, usrs, t)
    IN  IF is_api
        THEN IF api.user # None
             THEN [status |-> 200, detail |-> "", user |-> api.user,
                   via |-> "api_token", api_tokens |-> api.api_tokens,
                   validators |-> <<"api_token">>]
             ELSE [status |-> 401, detail |-> "Invalid API token",
                   user |-> None, via |-> "", api_tokens |-> api.api_tokens,
                   validators |-> <<"api_token">>]
        ELSE [status |-> jwt.status, detail |-> jwt.detail, user |-> jwt.user,
              via |-> jwt.via, api_tokens |-> api.api_tokens,
              validators |-> <<"session">>]

\* get_current_user: the outcome, the api_tokens table after the call, and
\* the validators that were run, in order.
get_current_user(token, toks, usrs, t) ==
    LET is_api == bearer_startswith(token, "ctp_")
        api == IF is_api THEN authenticate_api_token(token, toks, usrs, t)
               ELSE [user |-> None, api_tokens |-> toks]
        jwt == get_current_user_jwt(token, usrs, t)
    IN  IF is_api /\ api.user # None
        THEN [status |-> 200, detail |-> "", user |-> api.user,
              via |-> "api_token", api_tokens |-> api.api_tokens,
              validators |-> <<"api_token">>]
        ELSE [status |-> jwt.status, detail |-> jwt.detail, user |-> jwt.user,
              via |-> jwt.via, api_tokens |-> api.api_tokens,
              validators |-> (IF is_api THEN <<"api_token">> ELSE <<>>)
                               \o <<"session">>]

(***************************************************************************)
(* Enrollment tokens: models/enrollment_token.py, enrollment_auth.py.      *)
(***************************************************************************)
\* The usage check lets one use too many through (> for >=).
is_valid_one_more(enrollment_token, t) ==
    IF enrollment_token.expires_at # None /\ t > enrollment_token.expires_at
    THEN FALSE
    ELSE IF /\ enrollment_token.max_uses # None
            /\ enrollment_token.max_uses # 0
            /\ enrollment_token.used_count > enrollment_token.max_uses
    THEN FALSE
    ELSE TRUE

\* EnrollmentToken.is_valid
is_valid(enrollment_token, t) ==
    IF enrollment_token.expires_at # None /\ t > enrollment_token.expires_at
    THEN FALSE
    ELSE IF /\ enrollment_token.max_uses # None
            /\ enrollment_token.max_uses # 0
            /\ enrollment_token.used_count >= enrollment_token.max_uses
    THEN FALSE
    ELSE TRUE

\* EnrollmentToken.increment_usage on the row the request has loaded.
increment_usage(enrollment_token, t) ==
    [enrollment_token EXCEPT !.used_count = enrollment_token.used_count + 1,
                             !.last_used_at = t]

\* An unknown enrollment token returns None instead of raising, so that the
\* caller falls back to get_current_user.
get_user_from_enrollment_token_lenient(token, etoks, t) ==
    LET found == {e \in etoks : e.token_hash = hash_token(token)}
    IN  IF ~ bearer_startswith(token, "cet_")
        THEN [outcome |-> "none", status |-> 0, detail |-> "", row |-> {}]
        ELSE IF found = {}
        THEN [outcome |-> "none", status |-> 0, detail |-> "", row |-> {}]
        ELSE IF ~ is_valid(CHOOSE e \in found : TRUE, t)
        THEN [outcome |-> "raise", status |-> 401,
              detail |-> "Enrollment token expired or usage limit exceeded",
              row |-> {}]
        ELSE [outcome |-> "valid", status |-> 200, detail |-> "", row |-> found]

\* An exhausted or expired token is reported like an unknown one.
get_user_from_enrollment_token_one_detail(token, etoks, t) ==
    LET found == {e \in etoks : e.token_hash = hash_token(token)}
    IN  IF ~ bearer_startswith(token, "cet_")
        THEN [outcome |-> "none", status |-> 0, detail |-> "", row |-> {}]
        ELSE IF found = {} \/ ~ is_valid(CHOOSE e \in found : TRUE, t)
        THEN [outcome |-> "raise", status |-> 401,
              detail |-> "Invalid enrollment token", row |-> {}]
        ELSE [outcome |-> "valid", status |-> 200, detail |-> "", row |-> found]

\* get_user_from_enrollment_token, lines 15-46: "none" when the bearer is no
\* enrollment token, "raise" with the HTTP error, or "valid" with the row.
get_user_from_enrollment_token(token, etoks, t) ==
    LET found == {e \in etoks : e.token_hash = hash_token(token)}
    IN  IF ~ bearer_startswith(token, "cet_")
        THEN [outcome |-> "none", status |-> 0, detail |-> "", row |-> {}]
        ELSE IF found = {}
        THEN [outcome |-> "raise", status |-> 401,
              detail |-> "Invalid enrollment token", row |-> {}]
        ELSE IF ~ is_valid(CHOOSE e \in found : TRUE, t)
        THEN [outcome |-> "raise", status |-> 401,
              detail |-> "Enrollment token expired or usage limit exceeded",
              row |-> {}]
        ELSE [outcome |-> "valid", status |-> 200, detail |-> "", row |-> found]

(***************************************************************************)
(* State.                                                                  *)
(*   users, tenants, api_tokens, enrollment_tokens, endpoints, job_runs:   *)
(*     the tables                                                          *)
(*   repo: the files of the tenants' manifest repositories, each a triple  *)
(*     <<tenant_id, namespace, file name>>                                 *)
(*   login_window: the login requests answered in the current window       *)
(*   seq: the autoincrement counters and the source of fresh secrets       *)
(*   req: the enrollment requests in flight (each has its own session)     *)
(*   issued: the create responses clients hold (plaintext, id, owner)      *)
(*   admitted: per enrollment token id, the validations that succeeded     *)
(*   resp: the last completed request and its response                     *)
(*   sc: the inputs and the result of a stand-alone has_scope call         *)
(***************************************************************************)
Reqs == {1, 2}

Idle == [pc |-> "idle", token |-> <<>>, row |-> {}, machine_id |-> ""]

NoResp ==
    [op |-> "none", bearer |-> <<>>, status |-> 0, detail |-> "",
     user |-> None, tenant |-> "", via |-> "", validators |-> <<>>,
     target |-> None, target_tenant |-> "", body |-> {}]

NoScopeCall ==
    [phase |-> "off", scopes |-> <<>>, required |-> <<>>, stored |-> <<>>,
     invalid |-> <<>>, result |-> FALSE]

tenant_of(usrs, user_id) ==
    IF \E u \in usrs : u.id = user_id
    THEN (CHOOSE u \in usrs : u.id = user_id).tenant_id
    ELSE ""

\* tenant_id of the row with this id, "" when there is none
row_tenant(table, id) ==
    IF \E x \in table : x.id = id
    THEN (CHOOSE x \in table : x.id = id).tenant_id
    ELSE ""

\* The response of a handler whose principal was resolved as auth.
Response(op, token, auth, status, detail, target, target_tenant, body) ==
    [op |-> op, bearer |-> token, status |-> status, detail |-> detail,
     user |-> auth.user, tenant |-> tenant_of(users, auth.user),
     via |-> auth.via, validators |-> auth.validators,
     target |-> target, target_tenant |-> target_tenant, body |-> body]

\* The response when the dependency get_current_user raised.
Unauthenticated(op, token, auth, target, target_tenant) ==
    Response(op, token, auth, auth.status, auth.detail, target, target_tenant, {})

Init ==
    /\ now = 0
    /\ users = {}
    /\ tenants = {}
    /\ repo = {}
    /\ login_window = 0
    /\ api_tokens = {}
    /\ enrollment_tokens = {}
    /\ endpoints = {}
    /\ job_runs = {}
    /\ seq = [users |-> 1, api_tokens |-> 1, enrollment_tokens |-> 1,
              endpoints |-> 1, job_runs |-> 1, secret |-> 1,
              agent_tokens |-> 1]
    /\ req = [r \in Reqs |-> Idle]
    /\ issued = {}
    /\ admitted = [i \in 1..MaxEnrollmentTokens |-> 0]
    /\ resp = NoResp
    /\ sc = NoScopeCall

(***************************************************************************)
(* Environment: the clock, registration, deactivation of a user.           *)
(***************************************************************************)
Tick ==
    /\ now < MaxTime
    /\ now' = now + 1
    /\ resp' = NoResp
    /\ UNCHANGED <<tenants, repo, login_window>>
    /\ UNCHANGED <<users, api_tokens, enrollment_tokens, endpoints, job_runs,
                   seq, req, issued, admitted, sc>>

\* security/password.py: a salted one-way hash of the password, and its check.
get_password_hash(password) == <<"bcrypt", password>>

verify_password(plain_password, hashed_password) ==
    hashed_password = get_password_hash(plain_password)

\* The credentials registrations and logins are drawn from.
Usernames == {"alice", "bob"}
Emails == {"alice@example.com", "bob@example.com"}
Passwords == {"password123", "wrongpassword"}

\* The username and the email of the n-th registration when every client
\* registers under a name of its own.
NewUsername(n) ==
    IF n = 1 THEN "alice" ELSE IF n = 2 THEN "bob"
    ELSE IF n = 3 THEN "carol" ELSE "dave"

NewEmail(n) ==
    IF n = 1 THEN "alice@example.com" ELSE IF n = 2 THEN "bob@example.com"
    ELSE IF n = 3 THEN "carol@example.com" ELSE "dave@example.com"

\* models/user.py User as register builds it.
User(id, tenant_id, email, username, password) ==
    [id |-> id, tenant_id |-> tenant_id, email |-> email,
     username |-> username, hashed_password |-> get_password_hash(password),
     is_active |-> TRUE]

\* schemas/auth.py UserResponse: what register returns of the row.
UserResponse(user) ==
    [id |-> user.id, tenant_id |-> user.tenant_id, email |-> user.email,
     username |-> user.username, is_active |-> user.is_active]

\* create_tenant_repository: the tenant's manifest repository with its two
\* initial directories (the remote store answers).
create_tenant_repository(tenant_id) ==
    {<<tenant_id, n_production, f_gitkeep>>, <<tenant_id, n_staging, f_gitkeep>>}

\* register, lines 101-104: the rows with this email or this username.
existing_user(usrs, email, username) ==
    {u \in usrs : u.email = email \/ u.username = username}

\* register, lines 106-110: the request is refused with 400.
register_rejects(usrs, email, username) ==
    existing_user(usrs, email, username) # {}

\* register, lines 112-151, after the check passed: the tenant is created
\* and committed when it is missing, then the user is inserted.  The unique
\* indexes of users.email and users.username refuse a row another request
\* has inserted since the check: the insert raises, the request ends in 500
\* and the tenant committed before it stays.
register_insert(tenant_id, email, username, password) ==
    LET is_new_tenant == tenant_id \notin tenants
    IN  /\ tenants' = tenants \cup {tenant_id}
        /\ IF existing_user(users, email, username) # {}
           THEN /\ resp' = [NoResp EXCEPT !.op = "register", !.status = 500,
                                          !.detail = "Internal Server Error"]
                /\ UNCHANGED <<users, seq, repo>>
           ELSE /\ users' = users \cup
                      {User(seq.users, tenant_id, email, username, password)}
                /\ seq' = [seq EXCEPT !.users = seq.users + 1]
                /\ repo' = IF is_new_tenant
                           THEN repo \cup create_tenant_repository(tenant_id)
                           ELSE repo
                /\ resp' = [NoResp EXCEPT
                              !.op = "register", !.status = 201,
                              !.body = {UserResponse(User(seq.users, tenant_id,
                                          email, username, password))}]

\* routes/auth.py register, one request served without another in between.
register(tenant_id, email, username, password) ==
    /\ seq.users <= MaxUsers
    /\ IF register_rejects(users, email, username)
       THEN /\ resp' = [NoResp EXCEPT
                          !.op = "register", !.status = 400,
                          !.detail = "User with this email or username already exists"]
            /\ UNCHANGED <<users, tenants, seq, repo>>
       ELSE register_insert(tenant_id, email, username, password)
    /\ UNCHANGED <<now, api_tokens, enrollment_tokens, endpoints, job_runs,
                   login_window, req, issued, admitted, sc>>

\* register up to the check of lines 101-110, for a request that is served
\* while another one is: each request has its own session.
register_begin(r, tenant_id, email, username, password) ==
    /\ req[r].pc = "idle"
    /\ seq.users <= MaxUsers
    /\ IF register_rejects(users, email, username)
       THEN /\ resp' = [NoResp EXCEPT
                          !.op = "register", !.status = 400,
                          !.detail = "User with this email or username already exists"]
            /\ UNCHANGED req
       ELSE /\ req' = [req EXCEPT ![r] =
                         [pc |-> "register", tenant_id |-> tenant_id,
                          email |-> email, username |-> username,
                          password |-> password]]
            /\ resp' = NoResp
    /\ UNCHANGED <<now, users, tenants, api_tokens, enrollment_tokens,
                   endpoints, job_runs, repo, login_window, seq, issued,
                   admitted, sc>>

\* register from line 112 on, for the request that passed the check.
register_commit(r) ==
    /\ req[r].pc = "register"
    /\ req' = [req EXCEPT ![r] = Idle]
    /\ register_insert(req[r].tenant_id, req[r].email, req[r].username,
                       req[r].password)
    /\ UNCHANGED <<now, api_tokens, enrollment_tokens, endpoints, job_runs,
                   login_window, issued, admitted, sc>>

\* The user row is removed physically instead of being soft-disabled.
deactivate_user_by_delete(user_id) ==
    /\ \E u \in users : u.id = user_id /\ u.is_active
    /\ users' = {u \in users : u.id # user_id}
    /\ resp' = NoResp
    /\ UNCHANGED <<now, tenants, api_tokens, enrollment_tokens, endpoints,
                   job_runs, repo, login_window, seq, req, issued, admitted, sc>>

\* The soft disable of a user: is_active = false, written to the table
\* directly (tests/test_auth.py test_login_inactive_user).
deactivate_user(user_id) ==
    /\ \E u \in users : u.id = user_id /\ u.is_active
    /\ users' = {IF u.id = user_id THEN [u EXCEPT !.is_active = FALSE] ELSE u
                   : u \in users}
    /\ resp' = NoResp
    /\ UNCHANGED <<now, tenants, api_tokens, enrollment_tokens, endpoints,
                   job_runs, repo, login_window, seq, req, issued, admitted, sc>>

\* config.py access_token_expire_minutes: a session outlives the clock.
access_token_expire == MaxTime + 1

\* security/jwt.py create_access_token with the claims login passes.
create_access_token(user, t) ==
    Jwt(SECRET_KEY, user.id, user.tenant_id, t + access_token_expire)

\* middleware/rate_limit.py RATE_LIMITS["auth_login"] = "5/minute".
auth_login_limit == 5

\* The password is not looked at.
login_password_unchecked(usrs, username, password) ==
    LET found == {u \in usrs : u.username = username}
    IN  IF found = {} THEN "unknown"
        ELSE IF ~ (CHOOSE u \in found : TRUE).is_active THEN "inactive"
        ELSE "ok"

\* login, lines 162-183: which of its branches answers the request.
login_outcome(usrs, username, password) ==
    LET found == {u \in usrs : u.username = username}
    IN  IF found = {} THEN "unknown"
        ELSE LET user == CHOOSE u \in found : TRUE
             IN  IF ~ verify_password(password, user.hashed_password)
                 THEN "password"
                 ELSE IF ~ user.is_active THEN "inactive"
                 ELSE "ok"

\* routes/auth.py login.  No limiter stands before the route: login_window
\* only counts the requests answered since the window began.
login(username, password) ==
    LET outcome == login_outcome(users, username, password)
        user == CHOOSE u \in users : u.username = username
        answer(status, detail, body) ==
            [NoResp EXCEPT !.op = "login", !.status = status,
                           !.detail = detail, !.body = body,
                           !.target = [username |-> username,
                                       password |-> password]]
    IN  /\ login_window < MaxLogins
        /\ login_window' = login_window + 1
        /\ resp' = IF outcome \in {"unknown", "password"}
                   THEN answer(401, "Incorrect username or password", {})
                   ELSE IF outcome = "inactive"
                   THEN answer(403, "User account is inactive", {})
                   ELSE answer(200, "",
                               {[access_token |-> create_access_token(user, now),
                                 token_type |-> "bearer"]})
        /\ UNCHANGED <<now, users, tenants, api_tokens, enrollment_tokens,
                       endpoints, job_runs, repo, seq, req, issued, admitted,
                       sc>>

\* The limiter's window ends: its count starts again.
window_expires ==
    /\ login_window > 0
    /\ login_window' = 0
    /\ resp' = NoResp
    /\ UNCHANGED <<now, users, tenants, api_tokens, enrollment_tokens,
                   endpoints, job_runs, repo, seq, req, issued, admitted, sc>>

(***************************************************************************)
(* routes/auth.py get_me: any route that only resolves the principal.      *)
(***************************************************************************)
get_me(token) ==
    LET auth == get_current_user(token, api_tokens, users, now)
    IN  /\ api_tokens' = auth.api_tokens
        /\ resp' = Response("get_me", token, auth, auth.status, auth.detail,
                            None, "", {})
        /\ UNCHANGED <<tenants, repo, login_window>>
        /\ UNCHANGED <<now, users, enrollment_tokens, endpoints, job_runs,
                       seq, req, issued, admitted, sc>>

(***************************************************************************)
(* routes/api_tokens.py.                                                   *)
(***************************************************************************)
\* The scope lists and expiries requests are drawn from.
TokenScopeLists == { <<s_read_runs>>, <<s_admin_star>>, <<s_run_star>> }
ExpiryDays == {None, 1}
\* APITokenUpdate.name: "" stands for a name that is not supplied (a supplied
\* name has min_length 1).
NoName == ""
NameChoices == {NoName, "deploy"}

\* The stored row is serialized as it is, token_hash included.
APITokenResponse_whole_row(t) == t

\* APITokenResponse: what get / update return of a row (no hash, no secret).
APITokenResponse(t) ==
    [id |-> t.id, name |-> t.name, scopes |-> t.scopes,
     last_used_at |-> t.last_used_at, expires_at |-> t.expires_at,
     is_expired |-> is_expired(t, now)]

\* The user_id filter is forgotten: any user of the tenant selects the row.
own_api_token_of_tenant(toks, token_id, user_id, tenant_id) ==
    {a \in toks : a.id = token_id /\ a.tenant_id = tenant_id}

\* The rows get / update / revoke select: id, user_id and tenant_id filters.
own_api_token(toks, token_id, user_id, tenant_id) ==
    {a \in toks : a.id = token_id /\ a.user_id = user_id
                    /\ a.tenant_id = tenant_id}

create_api_token(token, name, scopes, expires_days) ==
    LET auth == get_current_user(token, api_tokens, users, now)
        plaintext_token == ApiBearer(seq.secret)
        expires_at == IF expires_days # None /\ expires_days # 0
                      THEN now + expires_days ELSE None
        api_token == [id |-> seq.api_tokens,
                      tenant_id |-> tenant_of(users, auth.user),
                      user_id |-> auth.user,
                      name |-> name,
                      token_hash |-> hash_token(plaintext_token),
                      scopes |-> join(s_comma, scopes),
                      expires_at |-> expires_at,
                      last_used_at |-> None]
    IN  /\ seq.api_tokens <= MaxApiTokens
        /\ IF auth.status # 200
           THEN /\ api_tokens' = auth.api_tokens
                /\ resp' = Unauthenticated("create_api_token", token, auth, None, "")
                /\ UNCHANGED <<seq, issued>>
           ELSE IF Len(scopes) < 1
           THEN \* APITokenCreate.scopes: min_items=1
                /\ api_tokens' = auth.api_tokens
                /\ resp' = Response("create_api_token", token, auth, 422,
                                    "ensure this value has at least 1 items",
                                    None, "", {})
                /\ UNCHANGED <<seq, issued>>
           ELSE IF validate_scopes(scopes) # <<>>
           THEN /\ api_tokens' = auth.api_tokens
                /\ resp' = Response("create_api_token", token, auth, 422,
                                    "Invalid scopes", None, "",
                                    {validate_scopes(scopes)})
                /\ UNCHANGED <<seq, issued>>
           ELSE /\ api_tokens' = auth.api_tokens \cup {api_token}
                /\ seq' = [seq EXCEPT !.api_tokens = seq.api_tokens + 1,
                                      !.secret = seq.secret + 1]
                /\ issued' = issued \cup
                       {[token |-> plaintext_token, id |-> api_token.id,
                         user_id |-> auth.user, scopes |-> api_token.scopes,
                         revoked |-> FALSE]}
                /\ resp' = Response("create_api_token", token, auth, 201, "",
                                    api_token.id, api_token.tenant_id,
                                    {[id |-> api_token.id,
                                      token |-> plaintext_token]})
        /\ UNCHANGED <<tenants, repo, login_window>>
        /\ UNCHANGED <<now, users, enrollment_tokens, endpoints, job_runs,
                       req, admitted, sc>>

get_api_token(token, token_id) ==
    LET auth == get_current_user(token, api_tokens, users, now)
        found == own_api_token(auth.api_tokens, token_id, auth.user,
                               tenant_of(users, auth.user))
        owner == row_tenant(api_tokens, token_id)
    IN  /\ api_tokens' = auth.api_tokens
        /\ resp' = IF auth.status # 200
                   THEN Unauthenticated("get_api_token", token, auth, token_id, owner)
                   ELSE IF found = {}
                   THEN Response("get_api_token", token, auth, 404,
                                 "API token not found", token_id, owner, {})
                   ELSE Response("get_api_token", token, auth, 200, "",
                                 token_id, owner,
                                 {APITokenResponse(CHOOSE a \in found : TRUE)})
        /\ UNCHANGED <<tenants, repo, login_window>>
        /\ UNCHANGED <<now, users, enrollment_tokens, endpoints, job_runs,
                       seq, req, issued, admitted, sc>>

\* list_api_tokens: the caller's own tokens (one page holds them all).
list_api_tokens(token) ==
    LET auth == get_current_user(token, api_tokens, users, now)
        tokens == {a \in auth.api_tokens :
                     /\ a.user_id = auth.user
                     /\ a.tenant_id = tenant_of(users, auth.user)}
    IN  /\ api_tokens' = auth.api_tokens
        /\ resp' = IF auth.status # 200
                   THEN Unauthenticated("list_api_tokens", token, auth, None, "")
                   ELSE Response("list_api_tokens", token, auth, 200, "",
                                 None, "",
                                 {APITokenResponse(a) : a \in tokens})
        /\ UNCHANGED <<tenants, repo, login_window>>
        /\ UNCHANGED <<now, users, enrollment_tokens, endpoints, job_runs,
                       seq, req, issued, admitted, sc>>

\* An expiry that is not supplied is taken as "never expires".
token_update_clears_expiry(row, name, expires_days, t) ==
    [row EXCEPT !.name = IF name # NoName THEN name ELSE row.name,
                !.expires_at = IF expires_days # None THEN t + expires_days
                               ELSE None]

\* update_api_token, lines 209-214: the fields the request supplies.
token_update(row, name, expires_days, t) ==
    LET named == IF name # NoName THEN [row EXCEPT !.name = name] ELSE row
    IN  IF expires_days # None
        THEN [named EXCEPT !.expires_at = t + expires_days]
        ELSE named

update_api_token(token, token_id, name, expires_days) ==
    LET auth == get_current_user(token, api_tokens, users, now)
        found == own_api_token(auth.api_tokens, token_id, auth.user,
                               tenant_of(users, auth.user))
        owner == row_tenant(api_tokens, token_id)
        row == CHOOSE a \in found : TRUE
        updated == token_update(row, name, expires_days, now)
    IN  /\ IF auth.status # 200
           THEN /\ api_tokens' = auth.api_tokens
                /\ resp' = Unauthenticated("update_api_token", token, auth,
                                           token_id, owner)
           ELSE IF found = {}
           THEN /\ api_tokens' = auth.api_tokens
                /\ resp' = Response("update_api_token", token, auth, 404,
                                    "API token not found", token_id, owner, {})
           ELSE /\ api_tokens' = (auth.api_tokens \ {row}) \cup {updated}
                /\ resp' = Response("update_api_token", token, auth, 200, "",
                                    token_id, owner, {APITokenResponse(updated)})
        /\ UNCHANGED <<tenants, repo, login_window>>
        /\ UNCHANGED <<now, users, enrollment_tokens, endpoints, job_runs,
                       seq, req, issued, admitted, sc>>

\* A soft delete that leaves the row in place.
revoke_rows_kept(toks, found) == toks

\* revoke_api_token, lines 255-257: db.delete(token); db.commit()
revoke_rows(toks, found) == toks \ found

revoke_api_token(token, token_id) ==
    LET auth == get_current_user(token, api_tokens, users, now)
        found == own_api_token(auth.api_tokens, token_id, auth.user,
                               tenant_of(users, auth.user))
        owner == row_tenant(api_tokens, token_id)
    IN  /\ IF auth.status # 200
           THEN /\ api_tokens' = auth.api_tokens
                /\ resp' = Unauthenticated("revoke_api_token", token, auth,
                                           token_id, owner)
                /\ UNCHANGED issued
           ELSE IF found = {}
           THEN /\ api_tokens' = auth.api_tokens
                /\ resp' = Response("revoke_api_token", token, auth, 404,
                                    "API token not found", token_id, owner, {})
                /\ UNCHANGED issued
           ELSE /\ api_tokens' = revoke_rows(auth.api_tokens, found)
                /\ issued' = {IF i.id = token_id
                              THEN [i EXCEPT !.revoked = TRUE] ELSE i
                                : i \in issued}
                /\ resp' = Response("revoke_api_token", token, auth, 204, "",
                                    token_id, owner, {})
        /\ UNCHANGED <<tenants, repo, login_window>>
        /\ UNCHANGED <<now, users, enrollment_tokens, endpoints, job_runs,
                       seq, req, admitted, sc>>

(***************************************************************************)
(* Tenant-scoped lookups by id: routes/checkins.py get_run,                *)
(* routes/endpoints.py get_endpoint / revoke_endpoint,                     *)
(* routes/enrollment_tokens.py delete_enrollment_token.                    *)
(***************************************************************************)
\* The same lookup with the tenant predicate forgotten.
rows_by_id_only(table, id, tenant_id) == {x \in table : x.id = id}

\* db.query(M).filter(M.id == id, M.tenant_id == current_user.tenant_id)
tenant_rows(table, id, tenant_id) ==
    {x \in table : x.id = id /\ x.tenant_id = tenant_id}

get_run(token, run_id) ==
    LET auth == get_current_user(token, api_tokens, users, now)
        run == tenant_rows(job_runs, run_id, tenant_of(users, auth.user))
        owner == row_tenant(job_runs, run_id)
    IN  /\ api_tokens' = auth.api_tokens
        /\ resp' = IF auth.status # 200
                   THEN Unauthenticated("get_run", token, auth, run_id, owner)
                   ELSE IF run = {}
                   THEN Response("get_run", token, auth, 404, "Run not found",
                                 run_id, owner, {})
                   ELSE Response("get_run", token, auth, 200, "", run_id,
                                 owner, run)
        /\ UNCHANGED <<tenants, repo, login_window>>
        /\ UNCHANGED <<now, users, enrollment_tokens, endpoints, job_runs,
                       seq, req, issued, admitted, sc>>

get_endpoint(token, endpoint_id) ==
    LET auth == get_current_user(token, api_tokens, users, now)
        endpoint == tenant_rows(endpoints, endpoint_id,
                                tenant_of(users, auth.user))
        owner == row_tenant(endpoints, endpoint_id)
    IN  /\ api_tokens' = auth.api_tokens
        /\ resp' = IF auth.status # 200
                   THEN Unauthenticated("get_endpoint", token, auth,
                                        endpoint_id, owner)
                   ELSE IF endpoint = {}
                   THEN Response("get_endpoint", token, auth, 404,
                                 "Endpoint not found", endpoint_id, owner, {})
                   ELSE Response("get_endpoint", token, auth, 200, "",
                                 endpoint_id, owner, endpoint)
        /\ UNCHANGED <<tenants, repo, login_window>>
        /\ UNCHANGED <<now, users, enrollment_tokens, endpoints, job_runs,
                       seq, req, issued, admitted, sc>>

revoke_endpoint(token, endpoint_id) ==
    LET auth == get_current_user(token, api_tokens, users, now)
        endpoint == tenant_rows(endpoints, endpoint_id,
                                tenant_of(users, auth.user))
        owner == row_tenant(endpoints, endpoint_id)
    IN  /\ api_tokens' = auth.api_tokens
        /\ IF auth.status # 200
           THEN /\ resp' = Unauthenticated("revoke_endpoint", token, auth,
                                           endpoint_id, owner)
                /\ UNCHANGED endpoints
           ELSE IF endpoint = {}
           THEN /\ resp' = Response("revoke_endpoint", token, auth, 404,
                                    "Endpoint not found", endpoint_id, owner, {})
                /\ UNCHANGED endpoints
           ELSE /\ endpoints' = {IF e \in endpoint
                                 THEN [e EXCEPT !.status = "revoked"] ELSE e
                                   : e \in endpoints}
                /\ resp' = Response("revoke_endpoint", token, auth, 200,
                                    "Endpoint revoked", endpoint_id, owner, {})
        /\ UNCHANGED <<tenants, repo, login_window>>
        /\ UNCHANGED <<now, users, enrollment_tokens, job_runs,
                       seq, req, issued, admitted, sc>>

\* routes/checkins.py agent_checkin: unauthenticated, the run takes the
\* tenant of the endpoint.
agent_checkin(endpoint_id) ==
    LET endpoint == {e \in endpoints : e.id = endpoint_id}
    IN  /\ seq.job_runs <= MaxRuns
        /\ IF endpoint = {}
           THEN /\ resp' = [NoResp EXCEPT !.op = "agent_checkin", !.status = 404,
                                          !.detail = "Endpoint not found"]
                /\ UNCHANGED <<job_runs, seq>>
           ELSE /\ job_runs' = job_runs \cup
                      {[id |-> seq.job_runs,
                        tenant_id |-> (CHOOSE e \in endpoint : TRUE).tenant_id,
                        endpoint_id |-> endpoint_id]}
                /\ seq' = [seq EXCEPT !.job_runs = seq.job_runs + 1]
                /\ resp' = [NoResp EXCEPT !.op = "agent_checkin", !.status = 201]
        /\ UNCHANGED <<tenants, repo, login_window>>
        /\ UNCHANGED <<now, users, api_tokens, enrollment_tokens, endpoints,
                       req, issued, admitted, sc>>

(***************************************************************************)
(* routes/enrollment_tokens.py.                                            *)
(***************************************************************************)
MaxUsesChoices == {None} \cup (1..MaxUsesBound)

create_enrollment_token(token, max_uses, expires_in_days) ==
    LET auth == get_current_user(token, api_tokens, users, now)
        plaintext_token == EnrollmentBearer(seq.secret)
        expires_at == IF expires_in_days # None /\ expires_in_days # 0
                      THEN now + expires_in_days ELSE None
        enrollment_token ==
            [id |-> seq.enrollment_tokens,
             tenant_id |-> tenant_of(users, auth.user),
             token_hash |-> hash_token(plaintext_token),
             used_count |-> 0, max_uses |-> max_uses,
             expires_at |-> expires_at, last_used_at |-> None]
    IN  /\ seq.enrollment_tokens <= MaxEnrollmentTokens
        /\ api_tokens' = auth.api_tokens
        /\ IF auth.status # 200
           THEN /\ resp' = Unauthenticated("create_enrollment_token", token,
                                           auth, None, "")
                /\ UNCHANGED <<enrollment_tokens, seq>>
           ELSE /\ enrollment_tokens' = enrollment_tokens \cup {enrollment_token}
                /\ seq' = [seq EXCEPT
                             !.enrollment_tokens = seq.enrollment_tokens + 1,
                             !.secret = seq.secret + 1]
                /\ resp' = Response("create_enrollment_token", token, auth, 201,
                                    "", enrollment_token.id,
                                    enrollment_token.tenant_id,
                                    {[id |-> enrollment_token.id,
                                      token |-> plaintext_token]})
        /\ UNCHANGED <<tenants, repo, login_window>>
        /\ UNCHANGED <<now, users, endpoints, job_runs, req, issued,
                       admitted, sc>>

\* EnrollmentTokenListItem: what the list returns of a row.
EnrollmentTokenListItem(e) ==
    [id |-> e.id, used_count |-> e.used_count, max_uses |-> e.max_uses,
     expires_at |-> e.expires_at, last_used_at |-> e.last_used_at]

\* list_enrollment_tokens: the tokens of the caller's tenant.
list_enrollment_tokens(token) ==
    LET auth == get_current_user(token, api_tokens, users, now)
        tokens == {e \in enrollment_tokens :
                     e.tenant_id = tenant_of(users, auth.user)}
    IN  /\ api_tokens' = auth.api_tokens
        /\ resp' = IF auth.status # 200
                   THEN Unauthenticated("list_enrollment_tokens", token, auth,
                                        None, "")
                   ELSE Response("list_enrollment_tokens", token, auth, 200, "",
                                 None, "",
                                 {EnrollmentTokenListItem(e) : e \in tokens})
        /\ UNCHANGED <<tenants, repo, login_window>>
        /\ UNCHANGED <<now, users, enrollment_tokens, endpoints, job_runs,
                       seq, req, issued, admitted, sc>>

delete_enrollment_token(token, token_id) ==
    LET auth == get_current_user(token, api_tokens, users, now)
        found == tenant_rows(enrollment_tokens, token_id,
                             tenant_of(users, auth.user))
        owner == row_tenant(enrollment_tokens, token_id)
    IN  /\ api_tokens' = auth.api_tokens
        /\ IF auth.status # 200
           THEN /\ resp' = Unauthenticated("delete_enrollment_token", token,
                                           auth, token_id, owner)
                /\ UNCHANGED enrollment_tokens
           ELSE IF found = {}
           THEN /\ resp' = Response("delete_enrollment_token", token, auth, 404,
                                    "Enrollment token not found", token_id,
                                    owner, {})
                /\ UNCHANGED enrollment_tokens
           ELSE /\ enrollment_tokens' = enrollment_tokens \ found
                /\ resp' = Response("delete_enrollment_token", token, auth, 200,
                                    "Enrollment token deleted", token_id,
                                    owner, {})
        /\ UNCHANGED <<tenants, repo, login_window>>
        /\ UNCHANGED <<now, users, endpoints, job_runs, seq, req, issued,
                       admitted, sc>>

\* The detail get_user_for_enrollment substitutes for any failure of
\* get_current_user.
InvalidCredentialsDetail ==
    "Invalid authentication credentials. Provide either a valid enrollment token (cet_...) or JWT token."

(***************************************************************************)
(* routes/endpoints.py enroll_endpoint behind get_user_for_enrollment.     *)
(* An enrollment-token request reads and checks the row in one step and    *)
(* writes the incremented row in a later one: each request has its own     *)
(* session, and nothing locks the row between the two.                     *)
(***************************************************************************)
MachineIds == {"", "m1"}

\* enroll_endpoint, lines 70-71: secrets.token_urlsafe(32), the n-th token
\* handed to an agent.
AgentToken(n) == <<"agent", n>>

\* enroll_endpoint, lines 62-67: the endpoints of the tenant with this
\* machine_id (none when the request names no machine).
existing_endpoint(table, tenant, machine_id) ==
    IF machine_id # ""
    THEN {e \in table : e.tenant_id = tenant /\ e.machine_id = machine_id}
    ELSE {}

\* enroll_endpoint, lines 62-115, for the resolved principal, served
\* without another request in between.
EnrollEndpoint(token, principal, machine_id) ==
    LET tenant == tenant_of(users, principal.user)
        existing == existing_endpoint(endpoints, tenant, machine_id)
        token_hash == get_password_hash(AgentToken(seq.agent_tokens))
    IN  /\ seq.agent_tokens <= MaxEnrollments
        /\ IF existing # {}
           THEN \E e \in existing :
                  /\ endpoints' = (endpoints \ {e})
                                    \cup {[e EXCEPT !.status = "active",
                                                    !.token_hash = token_hash]}
                  /\ seq' = [seq EXCEPT !.agent_tokens = seq.agent_tokens + 1]
                  /\ resp' = Response("enroll_endpoint", token, principal, 201,
                                      "", e.id, tenant, {[agent_id |-> e.id]})
           ELSE /\ seq.endpoints <= MaxEndpoints
                /\ endpoints' = endpoints \cup
                       {[id |-> seq.endpoints, tenant_id |-> tenant,
                         machine_id |-> machine_id, status |-> "active",
                         token_hash |-> token_hash, last_heartbeat |-> None]}
                /\ seq' = [seq EXCEPT !.endpoints = seq.endpoints + 1,
                                      !.agent_tokens = seq.agent_tokens + 1]
                /\ resp' = Response("enroll_endpoint", token, principal, 201, "",
                                    seq.endpoints, tenant,
                                    {[agent_id |-> seq.endpoints]})

\* get_user_for_enrollment up to the validity check of an enrollment token;
\* for any other bearer the whole request (fallback to get_current_user).
enroll_begin(r, token, machine_id) ==
    LET e == get_user_from_enrollment_token(token, enrollment_tokens, now)
        auth == get_current_user(token, api_tokens, users, now)
        tried == IF bearer_startswith(token, "cet_")
                 THEN <<"enrollment">> ELSE <<>>
    IN  /\ req[r].pc = "idle"
        /\ IF e.outcome = "raise"
           THEN /\ resp' = Response("enroll_endpoint", token,
                                    [user |-> None, via |-> "",
                                     validators |-> tried],
                                    e.status, e.detail, None, "", {})
                /\ UNCHANGED <<api_tokens, endpoints, seq, req>>
           ELSE IF e.outcome = "valid"
           THEN /\ (CHOOSE x \in e.row : TRUE).used_count < MaxUsed
                /\ req' = [req EXCEPT ![r] =
                             [pc |-> "validated", token |-> token,
                              row |-> e.row, machine_id |-> machine_id]]
                /\ resp' = NoResp
                /\ UNCHANGED <<api_tokens, endpoints, seq>>
           ELSE /\ api_tokens' = auth.api_tokens
                /\ UNCHANGED req
                /\ IF auth.status # 200
                   THEN /\ resp' = Response("enroll_endpoint", token,
                                      [user |-> None, via |-> "",
                                       validators |-> tried \o auth.validators],
                                      401, InvalidCredentialsDetail,
                                      None, "", {})
                        /\ UNCHANGED <<endpoints, seq>>
                   ELSE EnrollEndpoint(token,
                          [user |-> auth.user, via |-> auth.via,
                           validators |-> tried \o auth.validators],
                          machine_id)
        /\ UNCHANGED <<tenants, repo, login_window>>
        /\ UNCHANGED <<now, users, enrollment_tokens, job_runs, issued,
                       admitted, sc>>

\* get_user_from_enrollment_token, lines 48-59, then enroll_endpoint:
\* increment_usage on the loaded row, commit, the tenant's first user.
enroll_commit(r) ==
    LET row == CHOOSE x \in req[r].row : TRUE
        stored == {x \in enrollment_tokens : x.id = row.id}
        tenant_users == {u \in users : u.tenant_id = row.tenant_id}
        failed(status, detail) ==
            Response("enroll_endpoint", req[r].token,
                     [user |-> None, via |-> "", validators |-> <<"enrollment">>],
                     status, detail, None, "", {})
    IN  /\ req[r].pc = "validated"
        /\ req' = [req EXCEPT ![r] = Idle]
        /\ IF stored = {}
           THEN \* the row was deleted meanwhile: the UPDATE matches no row
                /\ resp' = failed(500, "Internal Server Error")
                /\ UNCHANGED <<enrollment_tokens, endpoints, seq, admitted>>
           ELSE /\ enrollment_tokens' = (enrollment_tokens \ stored)
                                          \cup {increment_usage(row, now)}
                /\ IF tenant_users = {}
                   THEN /\ resp' = failed(404,
                              "User associated with enrollment token not found")
                        /\ UNCHANGED <<endpoints, seq, admitted>>
                   ELSE \E user \in tenant_users :
                          /\ admitted' = [admitted EXCEPT ![row.id] = @ + 1]
                          /\ EnrollEndpoint(req[r].token,
                               [user |-> user.id, via |-> "enrollment_token",
                                validators |-> <<"enrollment">>],
                               req[r].machine_id)
        /\ UNCHANGED <<tenants, repo, login_window>>
        /\ UNCHANGED <<now, users, api_tokens, job_runs, issued, sc>>

(***************************************************************************)
(* routes/endpoints.py enroll_endpoint served while other requests are:    *)
(* the handler reads the endpoint of the machine in one statement and      *)
(* writes at its commit, and no unique index spans (tenant_id, machine_id) *)
(* (migrations/versions/8572de0ee777: unique=False).                       *)
(***************************************************************************)
\* get_user_for_enrollment, then enroll_endpoint lines 62-67.
enroll_lookup(r, token, machine_id) ==
    LET e == get_user_from_enrollment_token(token, enrollment_tokens, now)
        auth == get_current_user(token, api_tokens, users, now)
        tried == IF bearer_startswith(token, "cet_")
                 THEN <<"enrollment">> ELSE <<>>
        row == CHOOSE x \in e.row : TRUE
        tenant_users == {u \in users : u.tenant_id = row.tenant_id}
        failed(validators, status, detail) ==
            Response("enroll_endpoint", token,
                     [user |-> None, via |-> "", validators |-> validators],
                     status, detail, None, "", {})
        enrolling(principal) ==
            [pc |-> "enrolling", token |-> token, principal |-> principal,
             machine_id |-> machine_id,
             existing |-> existing_endpoint(endpoints,
                            tenant_of(users, principal.user), machine_id)]
    IN  /\ req[r].pc = "idle"
        /\ IF e.outcome = "raise"
           THEN /\ resp' = failed(tried, e.status, e.detail)
                /\ UNCHANGED <<api_tokens, enrollment_tokens, req, admitted>>
           ELSE IF e.outcome = "valid"
           THEN /\ row.used_count < MaxUsed
                /\ enrollment_tokens' = (enrollment_tokens \ e.row)
                                          \cup {increment_usage(row, now)}
                /\ UNCHANGED api_tokens
                /\ IF tenant_users = {}
                   THEN /\ resp' = failed(tried, 404,
                              "User associated with enrollment token not found")
                        /\ UNCHANGED <<req, admitted>>
                   ELSE \E user \in tenant_users :
                          /\ admitted' = [admitted EXCEPT ![row.id] = @ + 1]
                          /\ req' = [req EXCEPT ![r] = enrolling(
                                       [user |-> user.id,
                                        via |-> "enrollment_token",
                                        validators |-> tried])]
                          /\ resp' = NoResp
           ELSE /\ api_tokens' = auth.api_tokens
                /\ UNCHANGED <<enrollment_tokens, admitted>>
                /\ IF auth.status # 200
                   THEN /\ resp' = failed(tried \o auth.validators, 401,
                                          InvalidCredentialsDetail)
                        /\ UNCHANGED req
                   ELSE /\ req' = [req EXCEPT ![r] = enrolling(
                                     [user |-> auth.user, via |-> auth.via,
                                      validators |-> tried \o auth.validators])]
                        /\ resp' = NoResp
        /\ UNCHANGED <<now, users, tenants, endpoints, job_runs, repo,
                       login_window, seq, issued, sc>>

\* enroll_endpoint, lines 69-115: the UPDATE of the row that was read (the
\* columns whose value differs from the one read) or the INSERT of a new one.
enroll_store(r) ==
    LET q == req[r]
        tenant == tenant_of(users, q.principal.user)
        token_hash == get_password_hash(AgentToken(seq.agent_tokens))
    IN  /\ q.pc = "enrolling"
        /\ seq.agent_tokens <= MaxEnrollments
        /\ req' = [req EXCEPT ![r] = Idle]
        /\ IF q.existing # {}
           THEN \E x \in q.existing :
                  /\ endpoints' =
                       { IF e.id = x.id
                         THEN [e EXCEPT !.token_hash = token_hash,
                                        !.status = IF x.status # "active"
                                                   THEN "active" ELSE @]
                         ELSE e : e \in endpoints }
                  /\ seq' = [seq EXCEPT !.agent_tokens = seq.agent_tokens + 1]
                  /\ resp' = Response("enroll_endpoint", q.token, q.principal,
                                      201, "", x.id, tenant,
                                      {[agent_id |-> x.id]})
           ELSE /\ seq.endpoints <= MaxInserted
                /\ endpoints' = endpoints \cup
                       {[id |-> seq.endpoints, tenant_id |-> tenant,
                         machine_id |-> q.machine_id, status |-> "active",
                         token_hash |-> token_hash, last_heartbeat |-> None]}
                /\ seq' = [seq EXCEPT !.endpoints = seq.endpoints + 1,
                                      !.agent_tokens = seq.agent_tokens + 1]
                /\ resp' = Response("enroll_endpoint", q.token, q.principal,
                                    201, "", seq.endpoints, tenant,
                                    {[agent_id |-> seq.endpoints]})
        /\ UNCHANGED <<now, users, tenants, api_tokens, enrollment_tokens,
                       job_runs, repo, login_window, issued, admitted, sc>>

\* The statuses a heartbeat reports ("": the field is absent).
HeartbeatStatuses == {"", "active", "inactive"}

\* routes/endpoints.py endpoint_heartbeat: no credential is asked for.
endpoint_heartbeat(endpoint_id, status) ==
    LET endpoint == {e \in endpoints : e.id = endpoint_id}
    IN  /\ IF endpoint = {}
           THEN /\ resp' = [NoResp EXCEPT !.op = "endpoint_heartbeat",
                                          !.status = 404,
                                          !.detail = "Endpoint not found",
                                          !.target = endpoint_id]
                /\ UNCHANGED endpoints
           ELSE /\ endpoints' =
                     { IF e \in endpoint
                       THEN [e EXCEPT !.last_heartbeat = now,
                                      !.status = IF status # ""
                                                 THEN status ELSE @]
                       ELSE e : e \in endpoints }
                /\ resp' = [NoResp EXCEPT !.op = "endpoint_heartbeat",
                                          !.status = 200,
                                          !.detail = "Heartbeat recorded",
                                          !.target = endpoint_id]
        /\ UNCHANGED <<now, users, tenants, api_tokens, enrollment_tokens,
                       job_runs, repo, login_window, seq, req, issued,
                       admitted, sc>>

(***************************************************************************)
(* routes/namespaces.py: a namespace is a directory of the tenant's        *)
(* manifest repository, a job a .yaml or .yml file in it.                  *)
(***************************************************************************)
SYSTEM_NAMESPACES == {n_discovered, n_default}

LowerAlnum ==
    { "a", "b", "c", "d", "e", "f", "g", "h", "i", "j", "k", "l", "m", "n",
      "o", "p", "q", "r", "s", "t", "u", "v", "w", "x", "y", "z",
      "0", "1", "2", "3", "4", "5", "6", "7", "8", "9" }

\* re.match(r'^[a-z0-9]([-a-z0-9]*[a-z0-9])?$', v): $ also matches before
\* a newline that ends v.
matches_name(v) ==
    LET w == IF Len(v) >= 1 /\ v[Len(v)] = "\n"
             THEN SubSeq(v, 1, Len(v) - 1) ELSE v
    IN  /\ Len(w) >= 1
        /\ w[1] \in LowerAlnum
        /\ w[Len(w)] \in LowerAlnum
        /\ \A i \in 1..Len(w) : w[i] \in LowerAlnum \cup {"-"}

\* The system names are not looked for.
validate_name_pattern_only(v) ==
    IF ~ matches_name(v) THEN "pattern"
    ELSE IF Len(v) > 63 THEN "length"
    ELSE "ok"

\* NamespaceCreateRequest.validate_name: "ok" or the rule that refuses v.
validate_name(v) ==
    IF ~ matches_name(v) THEN "pattern"
    ELSE IF Len(v) > 63 THEN "length"
    ELSE IF v \in SYSTEM_NAMESPACES THEN "system"
    ELSE "ok"

\* forgejo.get_repository_tree(path=name): the files of the directory (the
\* call raises when there is no such directory: the empty set).
get_repository_tree(files, tenant_id, name) ==
    {f \in files : f[1] = tenant_id /\ f[2] = name}

\* f["name"].endswith((".yaml", ".yml"))
yaml_files(contents) ==
    {f \in contents : endswith(f[3], s_dot_yaml) \/ endswith(f[3], s_dot_yml)}

\* The names requests carry and the files pushed to a repository.
NamespaceNames ==
    {n_discovered, n_default, n_production, n_team_a, n_team_dash, n_Default,
     n_default_nl}

PushedNamespaces == {n_default, n_team_a}

PushedFiles == {f_backup_yaml, f_report_yml, f_notes_txt}

\* A commit pushed to the tenant's repository: Git is where manifests live.
git_push(tenant_id, name, file) ==
    /\ tenant_id \in tenants
    /\ <<tenant_id, name, file>> \notin repo
    /\ repo' = repo \cup {<<tenant_id, name, file>>}
    /\ resp' = NoResp
    /\ UNCHANGED <<now, users, tenants, api_tokens, enrollment_tokens,
                   endpoints, job_runs, login_window, seq, req, issued,
                   admitted, sc>>

\* routes/namespaces.py create_namespace.  The write to the remote store
\* either succeeds or raises.
create_namespace(token, name) ==
    LET auth == get_current_user(token, api_tokens, users, now)
        tenant == tenant_of(users, auth.user)
        existing == get_repository_tree(repo, tenant, name)
        answer(status, detail) ==
            Response("create_namespace", token, auth, status, detail, name,
                     tenant, {})
    IN  /\ api_tokens' = auth.api_tokens
        /\ IF auth.status # 200
           THEN /\ resp' = Unauthenticated("create_namespace", token, auth,
                                           name, "")
                /\ UNCHANGED repo
           ELSE IF validate_name(name) # "ok"
           THEN /\ resp' = answer(422, validate_name(name))
                /\ UNCHANGED repo
           ELSE IF existing # {}
           THEN /\ resp' = answer(409, "Namespace already exists")
                /\ UNCHANGED repo
           ELSE \/ /\ repo' = repo \cup {<<tenant, name, f_gitkeep>>}
                   /\ resp' = answer(201, "")
                \/ /\ resp' = answer(500, "Failed to create namespace")
                   /\ UNCHANGED repo
        /\ UNCHANGED <<tenants, login_window>>
        /\ UNCHANGED <<now, users, enrollment_tokens, endpoints, job_runs,
                       seq, req, issued, admitted, sc>>

\* delete_namespace, lines 213-218.
delete_refuses(name) == name \in SYSTEM_NAMESPACES

\* routes/namespaces.py delete_namespace.  forgejo.delete_file raises when
\* the directory has no .gitkeep, and may raise as any remote call.
delete_namespace(token, name) ==
    LET auth == get_current_user(token, api_tokens, users, now)
        tenant == tenant_of(users, auth.user)
        contents == get_repository_tree(repo, tenant, name)
        answer(status, detail) ==
            Response("delete_namespace", token, auth, status, detail, name,
                     tenant, {})
    IN  /\ api_tokens' = auth.api_tokens
        /\ IF auth.status # 200
           THEN /\ resp' = Unauthenticated("delete_namespace", token, auth,
                                           name, "")
                /\ UNCHANGED repo
           ELSE IF delete_refuses(name)
           THEN /\ resp' = answer(400, "Cannot delete system namespace")
                /\ UNCHANGED repo
           ELSE IF contents = {}
           THEN /\ resp' = answer(404, "Namespace not found")
                /\ UNCHANGED repo
           ELSE IF yaml_files(contents) # {}
           THEN /\ resp' = answer(400, "Cannot delete namespace with jobs")
                /\ UNCHANGED repo
           ELSE \/ /\ <<tenant, name, f_gitkeep>> \in repo
                   /\ repo' = repo \ {<<tenant, name, f_gitkeep>>}
                   /\ resp' = answer(200, "Namespace deleted successfully")
                \/ /\ resp' = answer(500, "Failed to delete namespace")
                   /\ UNCHANGED repo
        /\ UNCHANGED <<tenants, login_window>>
        /\ UNCHANGED <<now, users, enrollment_tokens, endpoints, job_runs,
                       seq, req, issued, admitted, sc>>

(***************************************************************************)
(* The specification of the API.                                           *)
(***************************************************************************)
Ids(n) == 1..n

\* The response has been sent: the next request is observed after it.
send_response ==
    /\ resp # NoResp
    /\ resp' = NoResp
    /\ UNCHANGED <<tenants, repo, login_window>>
    /\ UNCHANGED <<now, users, api_tokens, enrollment_tokens, endpoints,
                   job_runs, seq, req, issued, admitted, sc>>

\* The API-token and session subsystem.
Next ==
    \/ send_response
    \/ resp = NoResp /\ Tick
    \/ resp = NoResp /\ \E tn \in Tenants :
                          register(tn, NewEmail(seq.users), NewUsername(seq.users),
                                   "password123")
    \/ resp = NoResp /\ \E u \in Ids(MaxUsers) : deactivate_user(u)
    \/ resp = NoResp /\ \E token \in Bearers : get_me(token)
    \/ resp = NoResp /\ \E token \in Bearers, scopes \in TokenScopeLists,
                             d \in ExpiryDays :
                          create_api_token(token, "ci", scopes, d)
    \/ resp = NoResp /\ \E token \in Bearers, id \in Ids(MaxApiTokens) :
                          get_api_token(token, id)
    \/ resp = NoResp /\ \E token \in Bearers, id \in Ids(MaxApiTokens),
                             n \in NameChoices, d \in ExpiryDays :
                          update_api_token(token, id, n, d)
    \/ resp = NoResp /\ \E token \in Bearers, id \in Ids(MaxApiTokens) :
                          revoke_api_token(token, id)

Spec == Init /\ [][Next]_vars

\* Enrollment: enrollment tokens and the concurrent requests that present
\* them (the clock stands still, tokens are created without expiry).
NextEnroll ==
    \/ send_response
    \/ resp = NoResp /\ \E tn \in Tenants :
                          register(tn, NewEmail(seq.users), NewUsername(seq.users),
                                   "password123")
    \/ resp = NoResp /\ \E u \in Ids(MaxUsers) : deactivate_user(u)
    \/ resp = NoResp /\ \E token \in Bearers, m \in MaxUsesChoices :
                          create_enrollment_token(token, m, None)
    \/ resp = NoResp /\ \E token \in Bearers, id \in Ids(MaxEnrollmentTokens) :
                          delete_enrollment_token(token, id)
    \/ resp = NoResp /\ \E r \in Reqs, token \in Bearers, m \in MachineIds :
                          enroll_begin(r, token, m)
    \/ resp = NoResp /\ \E r \in Reqs : enroll_commit(r)

SpecEnroll == Init /\ [][NextEnroll]_vars

\* The tenant-scoped tables and their by-id handlers.
NextTenant ==
    \/ send_response
    \/ resp = NoResp /\ \E tn \in Tenants :
                          register(tn, NewEmail(seq.users), NewUsername(seq.users),
                                   "password123")
    \/ resp = NoResp /\ \E token \in Bearers :
                          create_api_token(token, "ci", <<s_admin_star>>, None)
    \/ resp = NoResp /\ \E token \in Bearers, id \in Ids(MaxApiTokens) :
                          get_api_token(token, id)
    \/ resp = NoResp /\ \E token \in Bearers :
                          create_enrollment_token(token, None, None)
    \/ resp = NoResp /\ \E token \in Bearers, id \in Ids(MaxEnrollmentTokens) :
                          delete_enrollment_token(token, id)
    \/ resp = NoResp /\ \E token \in Bearers, m \in MachineIds :
                          enroll_begin(1, token, m)
    \/ resp = NoResp /\ enroll_commit(1)
    \/ resp = NoResp /\ \E token \in Bearers, id \in Ids(MaxEndpoints) :
                          get_endpoint(token, id)
    \/ resp = NoResp /\ \E token \in Bearers, id \in Ids(MaxEndpoints) :
                          revoke_endpoint(token, id)
    \/ resp = NoResp /\ \E id \in Ids(MaxEndpoints) : agent_checkin(id)
    \/ resp = NoResp /\ \E token \in Bearers, id \in Ids(MaxRuns) :
                          get_run(token, id)

SpecTenant == Init /\ [][NextTenant]_vars

\* Endpoints: enrollments served concurrently, revocation, and the calls
\* agents make.  The callers hold the session of a registered user or a
\* token signed with another key.
EndpointBearers ==
    { Jwt(SECRET_KEY, u, "acme", MaxTime) : u \in 1..MaxUsers }
    \cup { Jwt(OTHER_KEY, 1, "acme", MaxTime) }

NextEndpoint ==
    \/ send_response
    \/ resp = NoResp /\ \E tn \in Tenants :
                          register(tn, NewEmail(seq.users), NewUsername(seq.users),
                                   "password123")
    \/ resp = NoResp /\ \E r \in Reqs, token \in EndpointBearers,
                             m \in MachineIds :
                          enroll_lookup(r, token, m)
    \/ resp = NoResp /\ \E r \in Reqs : enroll_store(r)
    \/ resp = NoResp /\ \E token \in EndpointBearers, id \in Ids(MaxInserted) :
                          revoke_endpoint(token, id)

SpecEndpoint == Init /\ [][NextEndpoint]_vars

\* The life of an endpoint: enrollment, revocation, and the calls its agent
\* makes without a credential.
NextRevoke ==
    \/ send_response
    \/ resp = NoResp /\ \E tn \in Tenants :
                          register(tn, NewEmail(seq.users), NewUsername(seq.users),
                                   "password123")
    \/ resp = NoResp /\ \E token \in EndpointBearers, m \in MachineIds :
                          enroll_begin(1, token, m)
    \/ resp = NoResp /\ \E token \in EndpointBearers, id \in Ids(MaxEndpoints) :
                          revoke_endpoint(token, id)
    \/ resp = NoResp /\ \E id \in Ids(MaxEndpoints), st \in HeartbeatStatuses :
                          endpoint_heartbeat(id, st)
    \/ resp = NoResp /\ \E id \in Ids(MaxEndpoints) : agent_checkin(id)

SpecRevoke == Init /\ [][NextRevoke]_vars

\* Namespaces: the callers create and delete them, manifests are pushed.
NextNamespace ==
    \/ send_response
    \/ resp = NoResp /\ \E tn \in Tenants :
                          register(tn, NewEmail(seq.users), NewUsername(seq.users),
                                   "password123")
    \/ resp = NoResp /\ \E n \in PushedNamespaces, f \in PushedFiles :
                          git_push("acme", n, f)
    \/ resp = NoResp /\ \E token \in EndpointBearers, n \in NamespaceNames :
                          create_namespace(token, n)
    \/ resp = NoResp /\ \E token \in EndpointBearers, n \in NamespaceNames :
                          delete_namespace(token, n)

SpecNamespace == Init /\ [][NextNamespace]_vars

\* Registrations served concurrently.
NextRegister ==
    \/ send_response
    \/ resp = NoResp /\ \E r \in Reqs, tn \in Tenants, e \in Emails,
                             u \in Usernames :
                          register_begin(r, tn, e, u, "password123")
    \/ resp = NoResp /\ \E r \in Reqs : register_commit(r)

SpecRegister == Init /\ [][NextRegister]_vars

\* Accounts: registration, deactivation and login, the limiter's window.
NextAuth ==
    \/ send_response
    \/ resp = NoResp /\ \E tn \in Tenants, e \in Emails, u \in Usernames :
                          register(tn, e, u, "password123")
    \/ resp = NoResp /\ \E u \in Ids(MaxUsers) : deactivate_user(u)
    \/ resp = NoResp /\ \E u \in Usernames, p \in Passwords : login(u, p)
    \/ resp = NoResp /\ window_expires

SpecAuth == Init /\ [][NextAuth]_vars

(***************************************************************************)
(* APIToken.has_scope on its own: a scope list as create_api_token accepts *)
(* and stores it, then one has_scope call.                                 *)
(***************************************************************************)
ScopeCandidates ==
    { s_read_runs, s_read_agents, s_write_jobs, s_admin_star, s_read_star,
      s_write_star, s_run_star, s_reader_star, s_admin_users }

RequiredScopes ==
    { s_read_runs, s_read_agents, s_write_jobs, s_write_tokens, s_read_colon,
      s_admin_users, s_admin_star, s_reader_star }

ScopeLists == UNION { [1..n -> ScopeCandidates] : n \in 1..MaxScopes }

InitScope ==
    /\ now = 0
    /\ users = {}
    /\ tenants = {}
    /\ repo = {}
    /\ login_window = 0
    /\ api_tokens = {}
    /\ enrollment_tokens = {}
    /\ endpoints = {}
    /\ job_runs = {}
    /\ seq = [users |-> 1, api_tokens |-> 1, enrollment_tokens |-> 1,
              endpoints |-> 1, job_runs |-> 1, secret |-> 1,
              agent_tokens |-> 1]
    /\ req = [r \in Reqs |-> Idle]
    /\ issued = {}
    /\ admitted = [i \in 1..MaxEnrollmentTokens |-> 0]
    /\ resp = NoResp
    /\ sc \in { [phase |-> "input", scopes |-> l, required |-> q,
                 stored |-> <<>>, invalid |-> <<>>, result |-> FALSE]
                  : l \in ScopeLists, q \in RequiredScopes }

\* APITokenCreate.validate_scopes, then ','.join(token_data.scopes)
scope_store ==
    /\ sc.phase = "input"
    /\ sc' = IF validate_scopes(sc.scopes) # <<>>
             THEN [sc EXCEPT !.phase = "rejected",
                             !.invalid = validate_scopes(sc.scopes)]
             ELSE [sc EXCEPT !.phase = "stored",
                             !.stored = join(s_comma, sc.scopes)]
    /\ UNCHANGED <<tenants, repo, login_window>>
    /\ UNCHANGED <<now, users, api_tokens, enrollment_tokens, endpoints,
                   job_runs, seq, req, issued, admitted, resp>>

\* token.has_scope(required_scope) on the stored column
scope_check ==
    /\ sc.phase = "stored"
    /\ sc' = [sc EXCEPT !.phase = "checked",
                        !.result = has_scope(sc.stored, sc.required)]
    /\ UNCHANGED <<tenants, repo, login_window>>
    /\ UNCHANGED <<now, users, api_tokens, enrollment_tokens, endpoints,
                   job_runs, seq, req, issued, admitted, resp>>

NextScope ==
    \/ scope_store
    \/ scope_check

SpecScope == InitScope /\ [][NextScope]_vars

\* The token routes: what is stored of a secret and what is returned of it.
NextSecrets ==
    \/ send_response
    \/ resp = NoResp /\ \E tn \in Tenants :
                          register(tn, NewEmail(seq.users), NewUsername(seq.users),
                                   "password123")
    \/ resp = NoResp /\ \E token \in Bearers, scopes \in TokenScopeLists :
                          create_api_token(token, "ci", scopes, None)
    \/ resp = NoResp /\ \E token \in Bearers : list_api_tokens(token)
    \/ resp = NoResp /\ \E token \in Bearers, id \in Ids(MaxApiTokens) :
                          get_api_token(token, id)
    \/ resp = NoResp /\ \E token \in Bearers, id \in Ids(MaxApiTokens),
                             n \in NameChoices, d \in ExpiryDays :
                          update_api_token(token, id, n, d)
    \/ resp = NoResp /\ \E token \in Bearers, id \in Ids(MaxApiTokens) :
                          revoke_api_token(token, id)
    \/ resp = NoResp /\ \E token \in Bearers, m \in MaxUsesChoices :
                          create_enrollment_token(token, m, None)
    \/ resp = NoResp /\ \E token \in Bearers : list_enrollment_tokens(token)
    \/ resp = NoResp /\ \E token \in Bearers, id \in Ids(MaxEnrollmentTokens) :
                          delete_enrollment_token(token, id)

SpecSecrets == Init /\ [][NextSecrets]_vars

\* update_api_token among several tokens: two users of one tenant, user 1
\* holding token 1 and either user holding token 2, both tokens as
\* create_api_token left them.
UpdateIds == 1..3

InitUpdate ==
    /\ now = 0
    /\ users = {User(u, "acme", NewEmail(u), NewUsername(u), "password123")
                  : u \in 1..2}
    /\ tenants = {"acme"}
    /\ repo = create_tenant_repository("acme")
    /\ login_window = 0
    /\ \E o \in 1..2 : \E x \in {None, 1} :
         /\ api_tokens =
              { [id |-> i, tenant_id |-> "acme",
                 user_id |-> (IF i = 1 THEN 1 ELSE o), name |-> "ci",
                 token_hash |-> hash_token(ApiBearer(i)),
                 scopes |-> join(s_comma, <<s_read_runs>>),
                 expires_at |-> (IF i = 1 THEN None ELSE x),
                 last_used_at |-> None] : i \in 1..2 }
         /\ issued =
              { [token |-> ApiBearer(i), id |-> i,
                 user_id |-> (IF i = 1 THEN 1 ELSE o),
                 scopes |-> join(s_comma, <<s_read_runs>>),
                 revoked |-> FALSE] : i \in 1..2 }
    /\ enrollment_tokens = {}
    /\ endpoints = {}
    /\ job_runs = {}
    /\ seq = [users |-> 3, api_tokens |-> 3, enrollment_tokens |-> 1,
              endpoints |-> 1, job_runs |-> 1, secret |-> 3,
              agent_tokens |-> 1]
    /\ req = [r \in Reqs |-> Idle]
    /\ admitted = [i \in 1..MaxEnrollmentTokens |-> 0]
    /\ resp = NoResp
    /\ sc = NoScopeCall

NextUpdate ==
    \/ send_response
    \/ resp = NoResp /\ Tick
    \/ resp = NoResp /\ \E token \in Bearers, id \in UpdateIds,
                             n \in NameChoices, d \in ExpiryDays :
                          update_api_token(token, id, n, d)

SpecUpdate == InitUpdate /\ [][NextUpdate]_vars

\* The token routes among several owners: user 1 of "acme" holds token 1,
\* user 2, of "acme" or of "other", holds token 2, both tokens as
\* create_api_token left them.
InitOwners ==
    /\ now = 0
    /\ \E tn \in Tenants :
         /\ users = { User(1, "acme", NewEmail(1), NewUsername(1), "password123"),
                      User(2, tn, NewEmail(2), NewUsername(2), "password123") }
         /\ tenants = {"acme", tn}
         /\ repo = create_tenant_repository("acme")
                     \cup create_tenant_repository(tn)
         /\ api_tokens =
              { [id |-> i, tenant_id |-> (IF i = 1 THEN "acme" ELSE tn),
                 user_id |-> i, name |-> "ci",
                 token_hash |-> hash_token(ApiBearer(i)),
                 scopes |-> join(s_comma, <<s_read_runs>>),
                 expires_at |-> None, last_used_at |-> None] : i \in 1..2 }
    /\ issued = { [token |-> ApiBearer(i), id |-> i, user_id |-> i,
                   scopes |-> join(s_comma, <<s_read_runs>>),
                   revoked |-> FALSE] : i \in 1..2 }
    /\ login_window = 0
    /\ enrollment_tokens = {}
    /\ endpoints = {}
    /\ job_runs = {}
    /\ seq = [users |-> 3, api_tokens |-> 3, enrollment_tokens |-> 1,
              endpoints |-> 1, job_runs |-> 1, secret |-> 3,
              agent_tokens |-> 1]
    /\ req = [r \in Reqs |-> Idle]
    /\ admitted = [i \in 1..MaxEnrollmentTokens |-> 0]
    /\ resp = NoResp
    /\ sc = NoScopeCall

NextOwners ==
    \/ send_response
    \/ resp = NoResp /\ \E token \in Bearers : list_api_tokens(token)
    \/ resp = NoResp /\ \E token \in Bearers, id \in UpdateIds :
                          get_api_token(token, id)
    \/ resp = NoResp /\ \E token \in Bearers, id \in UpdateIds,
                             n \in NameChoices, d \in ExpiryDays :
                          update_api_token(token, id, n, d)
    \/ resp = NoResp /\ \E token \in Bearers, id \in UpdateIds :
                          revoke_api_token(token, id)

SpecOwners == InitOwners /\ [][NextOwners]_vars

\* An API token after its expiry: user 1 of "acme" holds token 1, created
\* with expires_days = 1 one day before time 0, so that its expires_at (0)
\* has passed at time 1; user 2 of the same tenant holds token 2, which
\* never expires.
InitExpiry ==
    /\ now = 1
    /\ users = {User(u, "acme", NewEmail(u), NewUsername(u), "password123")
                  : u \in 1..2}
    /\ tenants = {"acme"}
    /\ repo = create_tenant_repository("acme")
    /\ login_window = 0
    /\ api_tokens =
         { [id |-> i, tenant_id |-> "acme", user_id |-> i, name |-> "ci",
            token_hash |-> hash_token(ApiBearer(i)),
            scopes |-> join(s_comma, <<s_read_runs>>),
            expires_at |-> (IF i = 1 THEN 0 ELSE None),
            last_used_at |-> None] : i \in 1..2 }
    /\ issued = { [token |-> ApiBearer(i), id |-> i, user_id |-> i,
                   scopes |-> join(s_comma, <<s_read_runs>>),
                   revoked |-> FALSE] : i \in 1..2 }
    /\ enrollment_tokens = {}
    /\ endpoints = {}
    /\ job_runs = {}
    /\ seq = [users |-> 3, api_tokens |-> 3, enrollment_tokens |-> 1,
              endpoints |-> 1, job_runs |-> 1, secret |-> 3,
              agent_tokens |-> 1]
    /\ req = [r \in Reqs |-> Idle]
    /\ admitted = [i \in 1..MaxEnrollmentTokens |-> 0]
    /\ resp = NoResp
    /\ sc = NoScopeCall

NextExpiry ==
    \/ send_response
    \/ resp = NoResp /\ Tick
    \/ resp = NoResp /\ \E token \in Bearers : get_me(token)
    \/ resp = NoResp /\ \E token \in Bearers : list_api_tokens(token)
    \/ resp = NoResp /\ \E token \in Bearers, id \in UpdateIds :
                          get_api_token(token, id)
    \/ resp = NoResp /\ \E token \in Bearers, id \in UpdateIds,
                             n \in NameChoices, d \in ExpiryDays :
                          update_api_token(token, id, n, d)

SpecExpiry == InitExpiry /\ [][NextExpiry]_vars

\* create_api_token with every scope list of up to MaxScopes candidates,
\* the empty list included.
CreateScopeLists == {<<>>} \cup ScopeLists

NextCreate ==
    \/ send_response
    \/ resp = NoResp /\ \E tn \in Tenants :
                          register(tn, NewEmail(seq.users), NewUsername(seq.users),
                                   "password123")
    \/ resp = NoResp /\ \E token \in Bearers, scopes \in CreateScopeLists :
                          create_api_token(token, "ci", scopes, None)
    \/ resp = NoResp /\ \E token \in Bearers : list_api_tokens(token)
    \/ resp = NoResp /\ \E token \in Bearers, id \in Ids(MaxApiTokens) :
                          revoke_api_token(token, id)

SpecCreate == Init /\ [][NextCreate]_vars

(***************************************************************************)
(* EnrollmentToken.is_valid on its own: one stored token with any expiry,  *)
(* ceiling and usage count the API can leave behind, asked at any time.    *)
(***************************************************************************)
InitValid ==
    /\ now \in 0..MaxTime
    /\ users = {User(1, "acme", NewEmail(1), NewUsername(1), "password123")}
    /\ tenants = {"acme"}
    /\ repo = create_tenant_repository("acme")
    /\ login_window = 0
    /\ api_tokens = {}
    /\ enrollment_tokens \in
         { {[id |-> 1, tenant_id |-> "acme",
             token_hash |-> hash_token(EnrollmentBearer(1)),
             used_count |-> u, max_uses |-> m, expires_at |-> x,
             last_used_at |-> None]}
             : u \in 0..MaxUsed, m \in MaxUsesChoices,
               x \in {None} \cup (1..MaxTime) }
    /\ endpoints = {}
    /\ job_runs = {}
    /\ seq = [users |-> 2, api_tokens |-> 1, enrollment_tokens |-> 2,
              endpoints |-> 1, job_runs |-> 1, secret |-> 2,
              agent_tokens |-> 1]
    /\ req = [r \in Reqs |-> Idle]
    /\ issued = {}
    /\ admitted = [i \in 1..MaxEnrollmentTokens |-> 0]
    /\ resp = NoResp
    /\ sc = NoScopeCall

\* enrollment_token.is_valid() at the current time
is_valid_call ==
    /\ \E e \in enrollment_tokens :
         sc' = [phase |-> "is_valid", at |-> now, used_count |-> e.used_count,
                max_uses |-> e.max_uses, expires_at |-> e.expires_at,
                result |-> is_valid(e, now)]
    /\ UNCHANGED <<tenants, repo, login_window>>
    /\ UNCHANGED <<now, users, api_tokens, enrollment_tokens, endpoints,
                   job_runs, seq, req, issued, admitted, resp>>

NextValid ==
    \/ Tick
    \/ is_valid_call

SpecValid == InitValid /\ [][NextValid]_vars

(***************************************************************************)
(* Properties.                                                             *)
(***************************************************************************)
\* The operations whose principal comes from Depends(get_current_user).
GcuOps ==
    { "get_me", "create_api_token", "get_api_token", "update_api_token",
      "revoke_api_token", "get_run", "get_endpoint", "revoke_endpoint",
      "create_enrollment_token", "delete_enrollment_token" }

IsBearer(b, prefix) == Len(b) > 0 /\ b[1] = prefix

\* The stored token of a create response is usable: present, unexpired,
\* owner active.
Live(i) ==
    \E a \in api_tokens :
        /\ a.id = i.id
        /\ ~ is_expired(a, now)
        /\ \E u \in users : u.id = a.user_id /\ u.is_active

\* C1: a request that presents the plaintext of a created API token resolves
\* to the token's owner whenever the token is stored, unexpired and its owner
\* active; once revoke_api_token has succeeded for the token, every later
\* request presenting that plaintext is rejected with 401.
C1_ApiTokenSamePrincipalUntilRevoked ==
    \A i \in issued :
        (resp.op \in GcuOps /\ resp.bearer = i.token) =>
            /\ Live(i) => (resp.user = i.user_id /\ resp.via = "api_token")
            /\ ( /\ i.revoked
                 /\ ~ ( /\ resp.op = "revoke_api_token"
                        /\ resp.status = 204
                        /\ resp.target = i.id ) )
               => (resp.user = None /\ resp.status = 401)

C1_Witness ==
    \E i \in issued :
        /\ i.revoked
        /\ resp.op = "get_me"
        /\ resp.bearer = i.token
        /\ resp.status = 401

\* C2: for an enrollment token with max_uses = N at most N validations with
\* its plaintext succeed, whatever the interleaving of the requests.
C2_AtMostMaxUsesAdmitted ==
    \A e \in enrollment_tokens :
        e.max_uses # None => admitted[e.id] <= e.max_uses

\* The by-id handlers that filter on the principal's tenant, and the table
\* each one reads.
ByIdOps ==
    { "get_run", "get_endpoint", "revoke_endpoint", "get_api_token",
      "delete_enrollment_token" }

CrossTenant(r) ==
    /\ r.op \in ByIdOps
    /\ r.user # None
    /\ r.target_tenant # ""
    /\ r.target_tenant # r.tenant

\* C3: a by-id read or mutation by a principal of tenant A on a record whose
\* tenant_id is B # A answers 404, returns no record and leaves the record
\* as it was.
C3_TenantIsolation ==
    [][ CrossTenant(resp') =>
          /\ resp'.status = 404
          /\ resp'.body = {}
          /\ {x \in job_runs' : x.id = resp'.target}
               = {x \in job_runs : x.id = resp'.target}
          /\ {x \in endpoints' : x.id = resp'.target}
               = {x \in endpoints : x.id = resp'.target}
          /\ {x \in enrollment_tokens' : x.id = resp'.target}
               = {x \in enrollment_tokens : x.id = resp'.target}
          /\ (resp'.op = "get_api_token" =>
                {x \in api_tokens' : x.id = resp'.target}
                  = {x \in api_tokens : x.id = resp'.target})
      ]_vars

C3_Witness ==
    /\ CrossTenant(resp)
    /\ resp.op = "revoke_endpoint"
    /\ resp.status = 404
    /\ \E e \in endpoints : e.id = resp.target /\ e.status = "active"

\* The rule of the scope authorizer, on the list of granted scopes.
ScopeRule(granted, required) ==
    \/ \E i \in 1..Len(granted) : granted[i] = s_admin_star
    \/ \E i \in 1..Len(granted) : granted[i] = required
    \/ \E i \in 1..Len(granted) :
         /\ Len(granted[i]) >= 2
         /\ granted[i][Len(granted[i]) - 1] = ":"
         /\ granted[i][Len(granted[i])] = "*"
         /\ Len(required) >= Len(granted[i]) - 1
         /\ \A k \in 1..(Len(granted[i]) - 1) : required[k] = granted[i][k]

\* C4: has_scope returns true iff "admin:*" is granted, or the required scope
\* is literally granted, or a granted scope ends in ":*" and that scope minus
\* its "*" is a prefix of the required scope; "admin:*" grants anything,
\* "read:*" grants "read:runs" and "read:agents" but not "write:jobs".
C4_HasScopeRule ==
    sc.phase = "checked" =>
        /\ sc.result = ScopeRule(sc.scopes, sc.required)
        /\ contains(sc.scopes, s_admin_star) => sc.result
        /\ (sc.scopes = <<s_read_star>> /\ sc.required = s_read_runs) => sc.result
        /\ (sc.scopes = <<s_read_star>> /\ sc.required = s_read_agents) => sc.result
        /\ (sc.scopes = <<s_read_star>> /\ sc.required = s_write_jobs) => ~ sc.result

C4_Witness ==
    /\ sc.phase = "checked"
    /\ sc.scopes = <<s_read_star, s_write_jobs>>
    /\ sc.required = s_read_agents
    /\ sc.result

\* AVAILABLE_SCOPES, the comments of lines 85-95: the scope each token
\* route asks for.
RequiredScope(op) ==
    IF op = "get_api_token" THEN s_read_tokens ELSE s_write_tokens

ScopedOps ==
    { "get_api_token", "create_api_token", "update_api_token",
      "revoke_api_token" }

IssuedScopes(b) == (CHOOSE i \in issued : i.token = b).scopes

\* C5: a request authenticated with an API token whose scopes do not grant
\* the scope the operation requires is denied with 403.
C5_ApiTokenScopeEnforced ==
    ( /\ resp.op \in ScopedOps
      /\ resp.via = "api_token"
      /\ ~ has_scope(IssuedScopes(resp.bearer), RequiredScope(resp.op)) )
    => resp.status = 403

\* C6: a session token signed with a key other than the server's resolves
\* to no principal, whatever its claims: the request is rejected with 401.
C6_ForgedSessionRejected ==
    ( /\ resp.op \in GcuOps
      /\ IsBearer(resp.bearer, "eyJ")
      /\ resp.bearer[2] # SECRET_KEY )
    => (resp.user = None /\ resp.status = 401)

C6_Witness ==
    /\ resp.op = "get_me"
    /\ resp.bearer = Jwt(OTHER_KEY, 1, "acme", MaxTime)
    /\ \E u \in users : u.id = 1 /\ u.is_active /\ u.tenant_id = "acme"
    /\ resp.status = 401

\* C7: for a "cet_" bearer the enrollment resolver runs the enrollment-token
\* validation and nothing else: the principal, if any, is the one that
\* validation produced.
C7_EnrollmentNoFallback ==
    (resp.op = "enroll_endpoint" /\ IsBearer(resp.bearer, "cet_")) =>
        /\ resp.validators = <<"enrollment">>
        /\ resp.user # None => resp.via = "enrollment_token"

C7_Witness ==
    /\ resp.op = "enroll_endpoint"
    /\ IsBearer(resp.bearer, "cet_")
    /\ resp.status = 401
    /\ resp.detail = "Invalid enrollment token"
    /\ \E u \in users : u.is_active

\* C8: for a "ctp_" bearer get_current_user runs the API-token validation
\* first; when it succeeds the session validator is not consulted, when it
\* fails the outcome is the session validator's for the same bearer.  For
\* any other bearer the API-token validation is not run.
C8_ApiThenSessionPrecedence ==
    resp.op \in GcuOps =>
        IF IsBearer(resp.bearer, "ctp_")
        THEN /\ resp.validators[1] = "api_token"
             /\ resp.via = "api_token" => resp.validators = <<"api_token">>
             /\ resp.via # "api_token" =>
                  LET session == get_current_user_jwt(resp.bearer, users, now)
                  IN  /\ resp.validators = <<"api_token", "session">>
                      /\ resp.user = session.user
                      /\ resp.status = session.status
                      /\ resp.detail = session.detail
        ELSE ~ contains(resp.validators, "api_token")

C8_Witness ==
    /\ resp.op = "get_me"
    /\ \E i \in issued : i.token = resp.bearer /\ ~ i.revoked
    /\ resp.via # "api_token"
    /\ resp.validators = <<"api_token", "session">>
    /\ resp.status = 401

\* C9: whenever every applicable validator of get_current_user fails for a
\* bearer (unknown hash, expired token, bad signature, missing user_id claim,
\* unknown user), the rejection is the one generic 401 "Could not validate
\* credentials", whatever the reason of the failure.
C9_OneGenericRejection ==
    ( /\ resp.op \in GcuOps
      /\ resp.user = None
      /\ resp.status # 403 )
    => (resp.status = 401 /\ resp.detail = "Could not validate credentials")

\* C10: a correctly signed, unexpired session token of an existing inactive
\* user is rejected with 403 "User account is inactive" on every route.
C10_InactiveSessionForbidden ==
    ( /\ resp.op \in GcuOps \cup {"enroll_endpoint"}
      /\ IsBearer(resp.bearer, "eyJ")
      /\ decode_access_token(resp.bearer, now) # {}
      /\ \E u \in users : u.id = resp.bearer[3] /\ ~ u.is_active )
    => (resp.status = 403 /\ resp.detail = "User account is inactive")

\* The stored API token the bearer hashes to, if any.
StoredApiToken(b) == {a \in api_tokens : a.token_hash = hash_token(b)}

\* C11: a request with the plaintext of a stored, unexpired API token whose
\* owner exists and has is_active = false is rejected with 403 (the principal
\* is inactive), not with the generic 401.
C11_InactiveOwnerForbidden ==
    ( /\ resp.op \in GcuOps
      /\ IsBearer(resp.bearer, "ctp_")
      /\ \E a \in StoredApiToken(resp.bearer) :
           /\ ~ is_expired(a, now)
           /\ \E u \in users : u.id = a.user_id /\ ~ u.is_active )
    => resp.status = 403

\* The stored enrollment token the bearer hashes to, if any.
StoredEnrollmentToken(b) ==
    {e \in enrollment_tokens : e.token_hash = hash_token(b)}

\* An enrollment request with a "cet_" bearer that is answered in this step
\* without having been admitted to the second half of the validation.
EnrollAnsweredAtOnce ==
    /\ resp = NoResp
    /\ resp'.op = "enroll_endpoint"
    /\ IsBearer(resp'.bearer, "cet_")
    /\ req' = req

\* C12: an enrollment attempt made with the plaintext of a token that has
\* max_uses = 1 and has been used once is not admitted and is answered 401
\* "Enrollment token expired or usage limit exceeded"; an attempt with a
\* "cet_" bearer that matches no stored token is answered 401 "Invalid
\* enrollment token", a different outcome.
C12_ExhaustedDistinctFromNotFound ==
    [][ /\ \A e \in enrollment_tokens :
             (e.max_uses = 1 /\ e.used_count >= 1) =>
               /\ \A r \in Reqs :
                    (req[r].pc = "idle" /\ req'[r].pc = "validated")
                       => hash_token(req'[r].token) # e.token_hash
               /\ (EnrollAnsweredAtOnce /\ e \in StoredEnrollmentToken(resp'.bearer))
                    => /\ resp'.status = 401
                       /\ resp'.detail
                            = "Enrollment token expired or usage limit exceeded"
        /\ (EnrollAnsweredAtOnce /\ StoredEnrollmentToken(resp'.bearer) = {})
             => /\ resp'.status = 401
                /\ resp'.detail = "Invalid enrollment token"
      ]_vars

C12_Witness ==
    /\ resp.op = "enroll_endpoint"
    /\ resp.detail = "Enrollment token expired or usage limit exceeded"
    /\ \E e \in StoredEnrollmentToken(resp.bearer) :
         e.max_uses = 1 /\ e.used_count = 1 /\ admitted[e.id] = 1

\* C13: is_valid returns true exactly when (expires_at is unset or
\* now < expires_at) and (max_uses is unset or used_count < max_uses), the
\* boundaries now = expires_at and used_count = max_uses included.
C13_IsValidStrictExpiry ==
    sc.phase = "is_valid" =>
        sc.result = ( /\ (sc.expires_at = None \/ sc.at < sc.expires_at)
                      /\ (sc.max_uses = None \/ sc.used_count < sc.max_uses) )

\* C13 as amended: is_valid returns true exactly when (expires_at is unset
\* or now <= expires_at) and (max_uses is unset or used_count < max_uses):
\* at now = expires_at the token is still valid, at used_count = max_uses it
\* is not.
C13_IsValidUntilExpiry ==
    sc.phase = "is_valid" =>
        sc.result = ( /\ (sc.expires_at = None \/ sc.at <= sc.expires_at)
                      /\ (sc.max_uses = None \/ sc.used_count < sc.max_uses) )

C13_Witness ==
    /\ sc.phase = "is_valid"
    /\ sc.at = sc.expires_at
    /\ sc.max_uses # None
    /\ sc.used_count = sc.max_uses - 1
    /\ sc.result

\* is_valid is false for the stored row: its expiry has passed or its usage
\* count has reached the ceiling.
Crossed(e, t) == ~ is_valid(e, t)

\* C14: an enrollment token that has crossed a bound (expiry passed, or
\* used_count at max_uses) never becomes valid again, whatever requests and
\* clock steps follow: while the token is stored it stays invalid.
C14_CrossedStaysInvalid ==
    [][ \A e \in enrollment_tokens : \A f \in enrollment_tokens' :
          (f.id = e.id /\ Crossed(e, now)) => Crossed(f, now') ]_vars

\* C15: in every reachable state, concurrent validations included, the
\* used_count of a stored enrollment token equals the number of validations
\* of that token that succeeded so far.
C15_UsedCountCountsAdmissions ==
    \A e \in enrollment_tokens : e.used_count = admitted[e.id]

\* C16: the principal of a successful enrollment-token validation is an
\* active user whose tenant is the tenant of the enrollment token.
C16_EnrollmentPrincipalActive ==
    ( /\ resp.op = "enroll_endpoint"
      /\ resp.via = "enrollment_token"
      /\ resp.user # None )
    => \E u \in users :
          /\ u.id = resp.user
          /\ u.is_active
          /\ \A e \in StoredEnrollmentToken(resp.bearer) :
                u.tenant_id = e.tenant_id

\* C17: when a request is authenticated by an API token, the stored token
\* has last_used_at = the current time once the request is answered (for a
\* fresh token: null before, non-null after), and the last_used_at of a
\* stored token, once set, is never unset and never decreases.
C17_LastUsedAtUpdated ==
    [][ /\ (resp'.op \in GcuOps /\ resp'.via = "api_token") =>
             \A a \in api_tokens' :
                a.token_hash = hash_token(resp'.bearer) => a.last_used_at = now'
        /\ \A a \in api_tokens : \A b \in api_tokens' :
             (b.id = a.id /\ a.last_used_at # None) =>
                (b.last_used_at # None /\ b.last_used_at >= a.last_used_at)
      ]_vars

C17_Witness ==
    /\ resp.op = "get_me"
    /\ resp.via = "api_token"
    /\ now > 0
    /\ \E a \in StoredApiToken(resp.bearer) : a.last_used_at = now

\* The operations on an existing token, and whether a response body carries
\* a secret: the plaintext (field token) or the stored hash (token_hash).
LaterTokenOps ==
    { "list_api_tokens", "get_api_token", "update_api_token",
      "revoke_api_token", "list_enrollment_tokens", "delete_enrollment_token" }

ReturnsSecret(body) ==
    \E x \in body : "token" \in DOMAIN x \/ "token_hash" \in DOMAIN x

\* C18: the plaintext of an API token or enrollment token is returned by the
\* create operation, fresh each time, and matches the stored hash; the
\* stored rows hold the hash and no plaintext; no successful list, get,
\* update, revoke or delete returns a plaintext or a hash.
C18_PlaintextReturnedOnce ==
    /\ \A a \in api_tokens \cup enrollment_tokens :
          "token" \notin DOMAIN a /\ a.token_hash[1] = "sha256"
    /\ (resp.op = "create_api_token" /\ resp.status = 201) =>
          \E x \in resp.body :
             /\ x.token = ApiBearer(seq.secret - 1)
             /\ \E a \in api_tokens :
                   a.id = x.id /\ a.token_hash = hash_token(x.token)
    /\ (resp.op = "create_enrollment_token" /\ resp.status = 201) =>
          \E x \in resp.body :
             /\ x.token = EnrollmentBearer(seq.secret - 1)
             /\ \E e \in enrollment_tokens :
                   e.id = x.id /\ e.token_hash = hash_token(x.token)
    /\ (resp.op \in LaterTokenOps /\ resp.status \in {200, 204}) =>
          ~ ReturnsSecret(resp.body)

C18_Witness ==
    /\ resp.op = "list_api_tokens"
    /\ resp.status = 200
    /\ \E i \in issued : \E x \in resp.body : x.id = i.id
    /\ enrollment_tokens # {}

\* What an update_api_token request for token_id with name n and expiry d,
\* presented with this bearer, may change in the table of API tokens.
UpdateFrame(token, token_id, n, d) ==
    /\ Cardinality(api_tokens') = Cardinality(api_tokens)
    /\ \A a \in api_tokens : \E b \in api_tokens' :
          LET hit == a.id = token_id /\ resp'.status = 200
          IN  /\ b.id = a.id
              /\ b.token_hash = a.token_hash
              /\ b.scopes = a.scopes
              /\ b.user_id = a.user_id
              /\ b.tenant_id = a.tenant_id
              /\ b.name = (IF hit /\ n # NoName THEN n ELSE a.name)
              /\ b.expires_at
                   = (IF hit /\ d # None THEN now + d ELSE a.expires_at)
              /\ b.last_used_at # a.last_used_at =>
                   (a.token_hash = hash_token(token) /\ resp'.via = "api_token")

ScopeAcceptable(scope) ==
    \/ \E i \in 1..Len(AVAILABLE_SCOPES) : AVAILABLE_SCOPES[i] = scope
    \/ /\ Len(scope) >= 2
       /\ scope[Len(scope) - 1] = ":"
       /\ scope[Len(scope)] = "*"
       /\ \E i \in 1..Len(AVAILABLE_SCOPES) :
             /\ Len(AVAILABLE_SCOPES[i]) >= Len(scope) - 1
             /\ \A k \in 1..(Len(scope) - 1) :
                   AVAILABLE_SCOPES[i][k] = scope[k]

Offending(scopes) == SelectSeq(scopes, LAMBDA x : ~ ScopeAcceptable(x))

\* The outcome of an authenticated create_api_token request for this scope
\* list: accepted (a row with these scopes is added and its plaintext
\* returned) when accept holds, otherwise a validation error, no new row
\* and no plaintext.
CreateOutcome(scopes, accept) ==
    IF accept
    THEN /\ resp'.status = 201
         /\ \E a \in api_tokens' \ api_tokens :
               /\ a.scopes = join(s_comma, scopes)
               /\ \E x \in resp'.body :
                     x.id = a.id /\ a.token_hash = hash_token(x.token)
    ELSE /\ resp'.status = 422
         /\ {a.id : a \in api_tokens'} = {a.id : a \in api_tokens}
         /\ seq' = seq
         /\ issued' = issued
         /\ resp'.body = IF Offending(scopes) # <<>>
                         THEN {Offending(scopes)} ELSE {}

\* C20: create_api_token accepts a scope list iff every scope of it is
\* acceptable; otherwise the request is rejected with a validation error
\* that lists exactly the offending scopes, no token is stored and no
\* plaintext is returned.
C20_ScopesAcceptedIffKnown ==
    [][ ( /\ resp = NoResp
          /\ resp'.op = "create_api_token"
          /\ resp'.user # None ) =>
          \A scopes \in CreateScopeLists :
             create_api_token(resp'.bearer, "ci", scopes, None) =>
                CreateOutcome(scopes, Offending(scopes) = <<>>)
      ]_vars

\* C20 as amended: create_api_token accepts a scope list iff it is not
\* empty and every scope of it is acceptable; an empty list is rejected by
\* the schema (min_items = 1), a list with offending scopes with a
\* validation error that lists exactly those; in both cases no token is
\* stored and no plaintext is returned.
C20_NonEmptyScopesAcceptedIffKnown ==
    [][ ( /\ resp = NoResp
          /\ resp'.op = "create_api_token"
          /\ resp'.user # None ) =>
          \A scopes \in CreateScopeLists :
             create_api_token(resp'.bearer, "ci", scopes, None) =>
                CreateOutcome(scopes,
                              Len(scopes) >= 1 /\ Offending(scopes) = <<>>)
      ]_vars

C20_Witness ==
    /\ resp.op = "create_api_token"
    /\ resp.status = 422
    /\ resp.body = {<<s_run_star, s_admin_users>>}
    /\ api_tokens = {}

\* C21: a login for a username nobody has and a login with a wrong password
\* for an existing user get the same answer, 401 "Incorrect username or
\* password"; the correct password of a user with is_active = false gets 403
\* "User account is inactive"; a session token is returned only to an active
\* user who gave the correct password, and it carries that user's id.
C21_LoginOutcomes ==
    resp.op = "login" =>
      LET found == {u \in users : u.username = resp.target.username}
          correct == {u \in found :
                        u.hashed_password = get_password_hash(resp.target.password)}
      IN  /\ correct = {} =>
                /\ resp.status = 401
                /\ resp.detail = "Incorrect username or password"
                /\ resp.body = {}
          /\ (correct # {} /\ \A u \in correct : ~ u.is_active) =>
                /\ resp.status = 403
                /\ resp.detail = "User account is inactive"
                /\ resp.body = {}
          /\ resp.body # {} =>
                /\ resp.status = 200
                /\ \E u \in correct :
                     /\ u.is_active
                     /\ \A x \in resp.body :
                          /\ bearer_startswith(x.access_token, "eyJ")
                          /\ x.access_token[2] = SECRET_KEY
                          /\ x.access_token[3] = u.id
                          /\ x.access_token[4] = u.tenant_id

\* The correct password of a deactivated user has been refused with 403.
C21_Witness ==
    /\ resp.op = "login"
    /\ resp.status = 403
    /\ \E u \in users : /\ u.username = resp.target.username
                        /\ ~ u.is_active
                        /\ verify_password(resp.target.password, u.hashed_password)

\* C22: after any registrations, interleaved ones included, no two users
\* share an email or a username, and a registration that finds its email or
\* its username taken is answered 400 "... already exists" and adds neither
\* a user nor a tenant.
C22_DuplicateRegistrationRejected ==
    /\ [](\A u1, u2 \in users :
            (u1.email = u2.email \/ u1.username = u2.username) => u1 = u2)
    /\ [][\A r \in Reqs :
            ( /\ req[r].pc = "register"
              /\ req'[r].pc = "idle"
              /\ existing_user(users, req[r].email, req[r].username) # {} )
            => ( /\ resp'.status = 400
                 /\ users' = users
                 /\ tenants' = tenants )]_vars

\* C23: login is limited to 5 requests per window: of the requests a client
\* sends with valid credentials within one window, the first 5 are answered
\* 200 and every further one 429.
C23_LoginRateLimited ==
    [][ ( /\ login_window' = login_window + 1
          /\ resp'.op = "login"
          /\ login_outcome(users, resp'.target.username,
                           resp'.target.password) = "ok" )
        => IF login_window < auth_login_limit
           THEN resp'.status = 200
           ELSE resp'.status = 429 ]_vars

\* C24: once revoke_endpoint has set an endpoint's status to "revoked", no
\* heartbeat and no check-in for that endpoint is accepted, and its status
\* stays "revoked" until an enrollment sets it again.
C24_RevokedEndpointShutOut ==
    [][ \A e \in endpoints :
          e.status = "revoked" =>
            /\ ~ ( /\ resp'.op = "endpoint_heartbeat"
                   /\ resp'.target = e.id
                   /\ resp'.status = 200 )
            /\ ~ \E run \in job_runs' \ job_runs : run.endpoint_id = e.id
            /\ \A x \in endpoints' :
                 (x.id = e.id /\ x.status # "revoked")
                   => resp'.op = "enroll_endpoint" ]_vars

\* C25: after any enrollments, concurrent ones included, a tenant has at
\* most one endpoint per machine_id; an enrollment naming a machine_id the
\* caller's tenant already has answers with that endpoint's id, leaves it
\* "active" with a new token hash and adds no row, and no enrollment changes
\* an endpoint of another tenant.
C25_OneEndpointPerMachine ==
    /\ [](\A e1, e2 \in endpoints :
            ( /\ e1.machine_id # ""
              /\ e1.tenant_id = e2.tenant_id
              /\ e1.machine_id = e2.machine_id ) => e1.id = e2.id)
    /\ [][\A r \in Reqs :
            (req[r].pc = "enrolling" /\ req'[r].pc = "idle") =>
              LET tenant == tenant_of(users, req[r].principal.user)
                  existing == existing_endpoint(endpoints, tenant,
                                                req[r].machine_id)
              IN  /\ existing # {} =>
                       /\ Cardinality(endpoints') = Cardinality(endpoints)
                       /\ \E x \in existing : \E y \in endpoints' :
                            /\ resp'.target = x.id
                            /\ y.id = x.id
                            /\ y.status = "active"
                            /\ y.token_hash # x.token_hash
                  /\ \A e \in endpoints :
                       e.tenant_id # tenant => e \in endpoints']_vars

\* C26: an authenticated create_namespace for "discovered" or "default" is
\* answered 422 and an authenticated delete_namespace for them 400; a
\* delete_namespace for a namespace holding a .yaml or .yml file is answered
\* 400; none of these changes the repository, and no create_namespace or
\* delete_namespace call removes a manifest or changes a file of a system
\* namespace.
C26_SystemNamespacesAndManifestsKept ==
    [][ (resp.op = "none" /\ resp'.op \in {"create_namespace", "delete_namespace"})
        => LET name == resp'.target
               tenant == resp'.tenant
               held == get_repository_tree(repo, tenant, name)
           IN  /\ (resp'.user # None /\ name \in SYSTEM_NAMESPACES) =>
                    /\ resp'.status = IF resp'.op = "create_namespace"
                                      THEN 422 ELSE 400
                    /\ repo' = repo
               /\ ( /\ resp'.user # None
                    /\ resp'.op = "delete_namespace"
                    /\ yaml_files(held) # {} ) =>
                    /\ resp'.status = 400
                    /\ repo' = repo
               /\ resp'.user = None => repo' = repo
               /\ yaml_files(repo) \subseteq repo'
               /\ {f \in repo' : f[2] \in SYSTEM_NAMESPACES}
                    = {f \in repo : f[2] \in SYSTEM_NAMESPACES} ]_vars

\* A delete_namespace for a namespace that holds a manifest besides its
\* .gitkeep has been refused with 400.
C26_Witness ==
    /\ resp.op = "delete_namespace"
    /\ resp.status = 400
    /\ resp.target \notin SYSTEM_NAMESPACES
    /\ <<resp.tenant, resp.target, f_gitkeep>> \in repo
    /\ yaml_files(get_repository_tree(repo, resp.tenant, resp.target)) # {}

\* C27: a credential validation that ends in a rejection writes nothing: when
\* get_me answers anything but 200, every table (api_tokens with its
\* last_used_at included) is as it was before the request.
C27_RejectedValidationWritesNothing ==
    [][ (resp.op = "none" /\ resp'.op = "get_me" /\ resp'.status # 200)
        => /\ api_tokens' = api_tokens
           /\ users' = users
           /\ enrollment_tokens' = enrollment_tokens
           /\ endpoints' = endpoints ]_vars

\* C28: get_api_token, update_api_token and revoke_api_token called by an
\* authenticated principal who is not the token's user (a user of the same
\* tenant or of another one) answer 404 "API token not found" and leave the
\* token's row as it was; list_api_tokens returns rows of the caller only.
C28_OnlyOwnerManagesToken ==
    [][ resp.op = "none" =>
        /\ ( /\ resp'.op \in {"get_api_token", "update_api_token",
                              "revoke_api_token"}
             /\ resp'.user # None )
           => \A a \in api_tokens :
                (a.id = resp'.target /\ a.user_id # resp'.user)
                  => /\ resp'.status = 404
                     /\ resp'.detail = "API token not found"
                     /\ a \in api_tokens'
        /\ (resp'.op = "list_api_tokens" /\ resp'.status = 200)
           => \A x \in resp'.body : \E a \in api_tokens :
                /\ a.id = x.id
                /\ a.user_id = resp'.user
                /\ a.tenant_id = resp'.tenant ]_vars

\* A user of the owner's tenant has asked to revoke a token that is not
\* theirs, was answered 404, and the token is still stored.
C28_Witness ==
    /\ resp.op = "revoke_api_token"
    /\ resp.status = 404
    /\ \E a \in api_tokens :
         /\ a.id = resp.target
         /\ a.user_id # resp.user
         /\ a.tenant_id = resp.tenant

\* The last request presented this plaintext and was authenticated by it.
ValidatedBy(token) ==
    /\ resp.bearer = token
    /\ resp.via = "api_token"
    /\ resp.user # None

\* C29: expiry of an API token is final: once a validation of an API token
\* has been rejected because the token is expired, no later sequence of
\* operations, update_api_token by its owner included, makes a validation
\* with the same plaintext succeed again.  (A validation rejected for expiry
\* writes nothing, so the claim is that a stored token that is_expired
\* rejects stays so through every step.)
C29_ExpiryIsFinal ==
    [][ \A a \in api_tokens : \A b \in api_tokens' :
          (b.id = a.id /\ is_expired(a, now)) => is_expired(b, now') ]_vars

\* C29, as the code has it: a stored API token that has expired stays
\* expired through every step but one, a successful update_api_token of
\* that token by its owner that supplies expires_days, which moves
\* expires_at to a time after the present; no other operation and no
\* passing of time makes a validation with its plaintext succeed again.
C29_ExpiredUntilOwnerExtends ==
    [][ \A a \in api_tokens : \A b \in api_tokens' :
          (b.id = a.id /\ is_expired(a, now) /\ ~ is_expired(b, now'))
          => /\ resp'.op = "update_api_token"
             /\ resp'.status = 200
             /\ resp'.target = a.id
             /\ resp'.user = a.user_id
             /\ b.expires_at # None
             /\ b.expires_at > now
      ]_vars

\* Token 1, expired from the start, authenticates a request again.
C29_Witness ==
    /\ ValidatedBy(ApiBearer(1))
    /\ resp.status = 200
    /\ \E a \in StoredApiToken(ApiBearer(1)) :
         /\ a.expires_at > now
         /\ a.last_used_at = now

\* C30: in every state reachable through the API, the tenant of every
\* stored enrollment token has at least one user, so the validation of an
\* enrollment token never answers 404 'User associated with enrollment token
\* not found' after it has incremented used_count.
C30_EnrollmentTokenTenantHasUser ==
    /\ \A e \in enrollment_tokens : \E u \in users : u.tenant_id = e.tenant_id
    /\ ~ ( /\ resp.op = "enroll_endpoint"
           /\ resp.status = 404 )

\* An enrollment token has been validated, its used_count incremented, and
\* the user lookup that follows found the tenant's only user, who had been
\* soft-disabled.
C30_Witness ==
    /\ resp.op = "enroll_endpoint"
    /\ resp.via = "enrollment_token"
    /\ resp.status = 201
    /\ \E e \in StoredEnrollmentToken(resp.bearer) :
         /\ e.used_count >= 1
         /\ \A u \in users : u.tenant_id = e.tenant_id =>
               (u.id = resp.user /\ ~ u.is_active)

====
